---- MODULE Spec2Model ----
(***************************************************************************)
(* Vision-guided audio navigation: the detection fusion and announcement  *)
(* scheduler (navigation_system.py), the speech dispatch (audio_manager.py)*)
(* and the estimators of the detectors (object_detector.py,               *)
(* text_detector.py), as a state machine.                                  *)
(*                                                                         *)
(* Conventions.                                                            *)
(*  - Distances and scores are Python floats, computed with the rounding   *)
(*    of IEEE 754 doubles.                                                 *)
(*  - Times are exact rationals <<num, den>> of seconds with den > 0;      *)
(*    comparisons cross-multiply.                                          *)
(*  - Wall-clock time is counted in ticks of half a second.                *)
(*  - Confidences are percentages (0.4 is 40).                             *)
(*  - A str that can hold any text (a class name of the detection model,   *)
(*    an OCR text, a message) is the tuple of its code points.             *)
(*  - Python's None is NoMessage where a message is expected, the string   *)
(*    "None" where a file name is expected and NoTime where a time is      *)
(*    expected.                                                            *)
(***************************************************************************)
EXTENDS Integers, Sequences, FiniteSets, TLC

VARIABLES
    now,                \* time.time(), in ticks
    last_announcement,  \* AudioNavigationSystem.last_announcement
    video_start_time,   \* AudioManager.video_start_time (NoTime: None)
    mainpc,             \* position of the caller's thread
    mode,               \* "none" | "video" | "image": the public method running
    frames_done,        \* calls of process_frame so far
    frame,              \* process_frame's argument
    objects_info,       \* process_frame's local objects_info
    text_info,          \* process_frame's local text_info
    seg_analysis,       \* process_frame's local seg_analysis
    message,            \* process_frame's local message
    speaking,           \* AudioManager.speaking
    audio_lock,         \* AudioManager.audio_lock: 0 free, else the holder
    audio_files,        \* AudioManager.audio_files
    audio_timestamps,   \* AudioManager.audio_timestamps (the announcement log)
    tpc,                \* position of each speak_text thread
    ttext,              \* the text argument of each speak_text thread
    tlocal,             \* locals of each speak_text thread
    music_busy,         \* pygame.mixer.music.get_busy(): a sound is audible
    history,            \* observations of the run (not program state)
    fuse_pc,            \* position of the fusion harness
    fuse_in,            \* all_detections handed to _generate_announcement
    fuse_out            \* its result

vars == <<now, last_announcement, video_start_time, mainpc, mode, frames_done,
          frame, objects_info, text_info, seg_analysis, message,
          speaking, audio_lock, audio_files, audio_timestamps, tpc, ttext,
          tlocal, music_busy, history, fuse_pc, fuse_in, fuse_out>>

sysvars == <<now, last_announcement, video_start_time, mainpc, mode, frames_done,
             frame, objects_info, text_info, seg_analysis, message, speaking, audio_lock, audio_files, audio_timestamps,
             tpc, ttext, tlocal, music_busy, history>>

framevars == <<frame, objects_info, text_info, seg_analysis, message>>

speechvars == <<speaking, audio_lock, audio_files, audio_timestamps, tpc,
                ttext, tlocal, music_busy>>

fusevars == <<fuse_pc, fuse_in, fuse_out>>

----------------------------------------------------------------------------
(* Rationals, for times *)

RLess(a, b) == a[1] * b[2] < b[1] * a[2]

Min(a, b) == IF a < b THEN a ELSE b

----------------------------------------------------------------------------
(* Python floats (IEEE 754 doubles, round to nearest, ties to even) *)

\* A float x with 0 <= x < 2^22 that is a multiple of 2^-60 is the tuple
\* <<i, f1, f2, t>> with f1, f2 < 2^15 and t < 2^30:
\*     x = i + f1 / 2^15 + f2 / 2^30 + t / 2^60.
\* Every float from 2^-7 up is such a multiple. An int of Python that meets a
\* float in an operation is converted to the float of the same value, and is
\* written here as that float.
B15 == 32768

B30 == 1073741824

RECURSIVE Pow2(_)
Pow2(k) == IF k = 0 THEN 1 ELSE 2 * Pow2(k - 1)

RECURSIVE BitLen(_)
\* int.bit_length()
BitLen(n) == IF n = 0 THEN 0 ELSE 1 + BitLen(n \div 2)

\* float(n)
DInt(n) == <<n, 0, 0, 0>>

\* The carries of a tuple whose lower places have grown past their base
DCarry(x) ==
    LET c3 == x[4] \div B30
        f2 == x[3] + c3
        c2 == f2 \div B15
        f1 == x[2] + c2
        c1 == f1 \div B15
    IN  <<x[1] + c1, f1 % B15, f2 % B15, x[4] % B30>>

\* The bits of x from its leading one down to the place 2^-60
DBits(x) ==
    IF x[1] > 0 THEN 60 + BitLen(x[1])
    ELSE IF x[2] > 0 THEN 45 + BitLen(x[2])
    ELSE IF x[3] > 0 THEN 30 + BitLen(x[3])
    ELSE BitLen(x[4])

\* The float nearest to the real number x + s, where s is a real number
\* below 2^-60 that is positive when sticky holds and zero otherwise: 53
\* significant bits are kept, a tie goes to the even neighbour
DRound(x, sticky) ==
    LET drop == DBits(x) - 53
        unit == Pow2(drop)
        low == x[4] % unit
        kept == x[4] - low
        up == \/ 2 * low > unit
              \/ /\ 2 * low = unit
                 /\ (sticky \/ (x[4] \div unit) % 2 = 1)
    IN  IF drop <= 0 THEN x
        ELSE IF up THEN DCarry(<<x[1], x[2], x[3], kept + unit>>)
        ELSE <<x[1], x[2], x[3], kept>>

DLess(x, y) ==
    \/ x[1] < y[1]
    \/ x[1] = y[1] /\ x[2] < y[2]
    \/ x[1] = y[1] /\ x[2] = y[2] /\ x[3] < y[3]
    \/ x[1] = y[1] /\ x[2] = y[2] /\ x[3] = y[3] /\ x[4] < y[4]

\* max(x, y) and min(x, y): the first argument when neither is greater
DMax(x, y) == IF DLess(x, y) THEN y ELSE x

DMin(x, y) == IF DLess(y, x) THEN y ELSE x

\* x + y
DAdd(x, y) ==
    DRound(DCarry(<<x[1] + y[1], x[2] + y[2], x[3] + y[3], x[4] + y[4]>>),
           FALSE)

\* x - y, for y <= x
DSub(x, y) ==
    LET t == x[4] - y[4]
        b3 == IF t < 0 THEN 1 ELSE 0
        f2 == x[3] - y[3] - b3
        b2 == IF f2 < 0 THEN 1 ELSE 0
        f1 == x[2] - y[2] - b2
        b1 == IF f1 < 0 THEN 1 ELSE 0
    IN  DRound(<<x[1] - y[1] - b1, f1 + b1 * B15, f2 + b2 * B15,
                 t + b3 * B30>>, FALSE)

\* x / 2, for x a multiple of 2^-59
DHalf(x) ==
    <<x[1] \div 2,
      x[2] \div 2 + (x[1] % 2) * (B15 \div 2),
      x[3] \div 2 + (x[2] % 2) * (B15 \div 2),
      x[4] \div 2 + (x[3] % 2) * (B30 \div 2)>>

\* n * x, for an int 0 <= n < 2^15
DMulInt(n, x) ==
    LET p4 == (x[4] % B15) * n
        p3 == (x[4] \div B15) * n + p4 \div B15
        p2 == x[3] * n + p3 \div B15
        p1 == x[2] * n + p2 \div B15
    IN  DRound(<<x[1] * n + p1 \div B15, p1 % B15, p2 % B15,
                 (p3 % B15) * B15 + (p4 % B15)>>, FALSE)

\* x / n, for an int 0 < n < 2^16 and a quotient that is zero or at least
\* 2^-7: the long division of x by n to the place 2^-60, and what is left
DDivInt(x, n) ==
    LET r0 == x[1] % n
        d1 == r0 * B15 + x[2]
        d2 == (d1 % n) * B15 + x[3]
        d3 == (d2 % n) * B15 + x[4] \div B15
        d4 == (d3 % n) * B15 + (x[4] % B15)
    IN  DRound(<<x[1] \div n, d1 \div n, d2 \div n,
                 (d3 \div n) * B15 + d4 \div n>>, d4 % n > 0)

\* The float literal of the decimal a / b
DRat(a, b) == DDivInt(DInt(a), b)

\* int(x), for x >= 0
DTrunc(x) == x[1]

----------------------------------------------------------------------------
(* Python strings *)

\* A str of Python that can hold any text is the tuple of its code points
\* (what ord gives for each of its characters), so that it holds every
\* character a str can hold. A str that the code takes from a fixed set (a
\* key, a label of the tables, a position, a category) or builds from digits
\* (a time stamp, a file name) is written as a string here, and Str gives the
\* tuple of its code points.

\* The printable characters of ASCII from U+0020 to U+005F, and those from
\* U+0061 to U+007E (U+0060 cannot be written in a string here)
PrintableLow ==
    " !\"#$%&'()*+,-./0123456789:;<=>?@ABCDEFGHIJKLMNOPQRSTUVWXYZ[\\]^_"

PrintableHigh == "abcdefghijklmnopqrstuvwxyz{|}~"

\* ord(c) for these characters, as a table
Ord ==
    LET pairs == {<<SubSeq(PrintableLow, i, i), 31 + i>> :
                     i \in 1..Len(PrintableLow)}
                 \cup {<<SubSeq(PrintableHigh, i, i), 96 + i>> :
                          i \in 1..Len(PrintableHigh)}
    IN  [c \in {p[1] : p \in pairs} |-> (CHOOSE p \in pairs : p[1] = c)[2]]

\* The str of a literal of these characters
Str(s) == [i \in 1..Len(s) |-> Ord[SubSeq(s, i, i)]]

\* The code points c with chr(c).isspace(), which are those str.strip()
\* removes (Python 3.11, Unicode 14.0)
Whitespace ==
    {9, 10, 11, 12, 13, 28, 29, 30, 31, 32, 133, 160, 5760, 8192, 8193, 8194,
     8195, 8196, 8197, 8198, 8199, 8200, 8201, 8202, 8232, 8233, 8239, 8287,
     12288}

IsSpace(c) == c \in Whitespace

RECURSIVE LStrip(_)
LStrip(s) ==
    IF Len(s) > 0 /\ IsSpace(s[1])
    THEN LStrip(SubSeq(s, 2, Len(s))) ELSE s

RECURSIVE RStrip(_)
RStrip(s) ==
    IF Len(s) > 0 /\ IsSpace(s[Len(s)])
    THEN RStrip(SubSeq(s, 1, Len(s) - 1)) ELSE s

\* str.strip()
Strip(s) == RStrip(LStrip(s))

\* The simple lowercase mappings of the Unicode character database: a code
\* point c with lo <= c <= hi and c - lo a multiple of step, for a tuple
\* <<lo, hi, step, delta>>, has the lowercase c + delta. U+0130 and U+03A3
\* are not among them.
LowerRanges ==
    {<<65, 90, 1, 32>>, <<192, 214, 1, 32>>, <<216, 222, 1, 32>>, <<256, 302,
     2, 1>>, <<306, 310, 2, 1>>, <<313, 327, 2, 1>>, <<330, 374, 2, 1>>,
     <<376, 376, 1, -121>>, <<377, 381, 2, 1>>, <<385, 385, 1, 210>>, <<386,
     388, 2, 1>>, <<390, 390, 1, 206>>, <<391, 391, 1, 1>>, <<393, 394, 1,
     205>>, <<395, 395, 1, 1>>, <<398, 398, 1, 79>>, <<399, 399, 1, 202>>,
     <<400, 400, 1, 203>>, <<401, 401, 1, 1>>, <<403, 403, 1, 205>>, <<404,
     404, 1, 207>>, <<406, 406, 1, 211>>, <<407, 407, 1, 209>>, <<408, 408,
     1, 1>>, <<412, 412, 1, 211>>, <<413, 413, 1, 213>>, <<415, 415, 1,
     214>>, <<416, 420, 2, 1>>, <<422, 422, 1, 218>>, <<423, 423, 1, 1>>,
     <<425, 425, 1, 218>>, <<428, 428, 1, 1>>, <<430, 430, 1, 218>>, <<431,
     431, 1, 1>>, <<433, 434, 1, 217>>, <<435, 437, 2, 1>>, <<439, 439, 1,
     219>>, <<440, 440, 1, 1>>, <<444, 444, 1, 1>>, <<452, 452, 1, 2>>,
     <<453, 453, 1, 1>>, <<455, 455, 1, 2>>, <<456, 456, 1, 1>>, <<458, 458,
     1, 2>>, <<459, 475, 2, 1>>, <<478, 494, 2, 1>>, <<497, 497, 1, 2>>,
     <<498, 500, 2, 1>>, <<502, 502, 1, -97>>, <<503, 503, 1, -56>>, <<504,
     542, 2, 1>>, <<544, 544, 1, -130>>, <<546, 562, 2, 1>>, <<570, 570, 1,
     10795>>, <<571, 571, 1, 1>>, <<573, 573, 1, -163>>, <<574, 574, 1,
     10792>>, <<577, 577, 1, 1>>, <<579, 579, 1, -195>>, <<580, 580, 1, 69>>,
     <<581, 581, 1, 71>>, <<582, 590, 2, 1>>, <<880, 882, 2, 1>>, <<886, 886,
     1, 1>>, <<895, 895, 1, 116>>, <<902, 902, 1, 38>>, <<904, 906, 1, 37>>,
     <<908, 908, 1, 64>>, <<910, 911, 1, 63>>, <<913, 929, 1, 32>>, <<932,
     939, 1, 32>>, <<975, 975, 1, 8>>, <<984, 1006, 2, 1>>, <<1012, 1012, 1,
     -60>>, <<1015, 1015, 1, 1>>, <<1017, 1017, 1, -7>>, <<1018, 1018, 1,
     1>>, <<1021, 1023, 1, -130>>, <<1024, 1039, 1, 80>>, <<1040, 1071, 1,
     32>>, <<1120, 1152, 2, 1>>, <<1162, 1214, 2, 1>>, <<1216, 1216, 1, 15>>,
     <<1217, 1229, 2, 1>>, <<1232, 1326, 2, 1>>, <<1329, 1366, 1, 48>>,
     <<4256, 4293, 1, 7264>>, <<4295, 4295, 1, 7264>>, <<4301, 4301, 1,
     7264>>, <<5024, 5103, 1, 38864>>, <<5104, 5109, 1, 8>>, <<7312, 7354, 1,
     -3008>>, <<7357, 7359, 1, -3008>>, <<7680, 7828, 2, 1>>, <<7838, 7838,
     1, -7615>>, <<7840, 7934, 2, 1>>, <<7944, 7951, 1, -8>>, <<7960, 7965,
     1, -8>>, <<7976, 7983, 1, -8>>, <<7992, 7999, 1, -8>>, <<8008, 8013, 1,
     -8>>, <<8025, 8031, 2, -8>>, <<8040, 8047, 1, -8>>, <<8072, 8079, 1,
     -8>>, <<8088, 8095, 1, -8>>, <<8104, 8111, 1, -8>>, <<8120, 8121, 1,
     -8>>, <<8122, 8123, 1, -74>>, <<8124, 8124, 1, -9>>, <<8136, 8139, 1,
     -86>>, <<8140, 8140, 1, -9>>, <<8152, 8153, 1, -8>>, <<8154, 8155, 1,
     -100>>, <<8168, 8169, 1, -8>>, <<8170, 8171, 1, -112>>, <<8172, 8172, 1,
     -7>>, <<8184, 8185, 1, -128>>, <<8186, 8187, 1, -126>>, <<8188, 8188, 1,
     -9>>, <<8486, 8486, 1, -7517>>, <<8490, 8490, 1, -8383>>, <<8491, 8491,
     1, -8262>>, <<8498, 8498, 1, 28>>, <<8544, 8559, 1, 16>>, <<8579, 8579,
     1, 1>>, <<9398, 9423, 1, 26>>, <<11264, 11311, 1, 48>>, <<11360, 11360,
     1, 1>>, <<11362, 11362, 1, -10743>>, <<11363, 11363, 1, -3814>>,
     <<11364, 11364, 1, -10727>>, <<11367, 11371, 2, 1>>, <<11373, 11373, 1,
     -10780>>, <<11374, 11374, 1, -10749>>, <<11375, 11375, 1, -10783>>,
     <<11376, 11376, 1, -10782>>, <<11378, 11378, 1, 1>>, <<11381, 11381, 1,
     1>>, <<11390, 11391, 1, -10815>>, <<11392, 11490, 2, 1>>, <<11499,
     11501, 2, 1>>, <<11506, 11506, 1, 1>>, <<42560, 42604, 2, 1>>, <<42624,
     42650, 2, 1>>, <<42786, 42798, 2, 1>>, <<42802, 42862, 2, 1>>, <<42873,
     42875, 2, 1>>, <<42877, 42877, 1, -35332>>, <<42878, 42886, 2, 1>>,
     <<42891, 42891, 1, 1>>, <<42893, 42893, 1, -42280>>, <<42896, 42898, 2,
     1>>, <<42902, 42920, 2, 1>>, <<42922, 42922, 1, -42308>>, <<42923,
     42923, 1, -42319>>, <<42924, 42924, 1, -42315>>, <<42925, 42925, 1,
     -42305>>, <<42926, 42926, 1, -42308>>, <<42928, 42928, 1, -42258>>,
     <<42929, 42929, 1, -42282>>, <<42930, 42930, 1, -42261>>, <<42931,
     42931, 1, 928>>, <<42932, 42946, 2, 1>>, <<42948, 42948, 1, -48>>,
     <<42949, 42949, 1, -42307>>, <<42950, 42950, 1, -35384>>, <<42951,
     42953, 2, 1>>, <<42960, 42960, 1, 1>>, <<42966, 42968, 2, 1>>, <<42997,
     42997, 1, 1>>, <<65313, 65338, 1, 32>>, <<66560, 66599, 1, 40>>,
     <<66736, 66771, 1, 40>>, <<66928, 66964, 2, 39>>, <<66929, 66937, 2,
     39>>, <<66941, 66953, 2, 39>>, <<66957, 66961, 2, 39>>, <<66965, 66965,
     1, 39>>, <<68736, 68786, 1, 64>>, <<71840, 71871, 1, 32>>, <<93760,
     93791, 1, 32>>, <<125184, 125217, 1, 34>>}

\* The code points with the property Cased, as ranges <<lo, hi>>
CasedRanges ==
    {<<65, 90>>, <<97, 122>>, <<170, 170>>, <<181, 181>>, <<186, 186>>,
     <<192, 214>>, <<216, 246>>, <<248, 442>>, <<444, 447>>, <<452, 659>>,
     <<661, 696>>, <<704, 705>>, <<736, 740>>, <<837, 837>>, <<880, 883>>,
     <<886, 887>>, <<890, 893>>, <<895, 895>>, <<902, 902>>, <<904, 906>>,
     <<908, 908>>, <<910, 929>>, <<931, 1013>>, <<1015, 1153>>, <<1162,
     1327>>, <<1329, 1366>>, <<1376, 1416>>, <<4256, 4293>>, <<4295, 4295>>,
     <<4301, 4301>>, <<4304, 4346>>, <<4349, 4351>>, <<5024, 5109>>, <<5112,
     5117>>, <<7296, 7304>>, <<7312, 7354>>, <<7357, 7359>>, <<7424, 7615>>,
     <<7680, 7957>>, <<7960, 7965>>, <<7968, 8005>>, <<8008, 8013>>, <<8016,
     8023>>, <<8025, 8025>>, <<8027, 8027>>, <<8029, 8029>>, <<8031, 8061>>,
     <<8064, 8116>>, <<8118, 8124>>, <<8126, 8126>>, <<8130, 8132>>, <<8134,
     8140>>, <<8144, 8147>>, <<8150, 8155>>, <<8160, 8172>>, <<8178, 8180>>,
     <<8182, 8188>>, <<8305, 8305>>, <<8319, 8319>>, <<8336, 8348>>, <<8450,
     8450>>, <<8455, 8455>>, <<8458, 8467>>, <<8469, 8469>>, <<8473, 8477>>,
     <<8484, 8484>>, <<8486, 8486>>, <<8488, 8488>>, <<8490, 8493>>, <<8495,
     8500>>, <<8505, 8505>>, <<8508, 8511>>, <<8517, 8521>>, <<8526, 8526>>,
     <<8544, 8575>>, <<8579, 8580>>, <<9398, 9449>>, <<11264, 11492>>,
     <<11499, 11502>>, <<11506, 11507>>, <<11520, 11557>>, <<11559, 11559>>,
     <<11565, 11565>>, <<42560, 42605>>, <<42624, 42653>>, <<42786, 42887>>,
     <<42891, 42894>>, <<42896, 42954>>, <<42960, 42961>>, <<42963, 42963>>,
     <<42965, 42969>>, <<42997, 42998>>, <<43000, 43002>>, <<43824, 43866>>,
     <<43868, 43880>>, <<43888, 43967>>, <<64256, 64262>>, <<64275, 64279>>,
     <<65313, 65338>>, <<65345, 65370>>, <<66560, 66639>>, <<66736, 66771>>,
     <<66776, 66811>>, <<66928, 66938>>, <<66940, 66954>>, <<66956, 66962>>,
     <<66964, 66965>>, <<66967, 66977>>, <<66979, 66993>>, <<66995, 67001>>,
     <<67003, 67004>>, <<67456, 67456>>, <<67459, 67461>>, <<67463, 67504>>,
     <<67506, 67514>>, <<68736, 68786>>, <<68800, 68850>>, <<71840, 71903>>,
     <<93760, 93823>>, <<119808, 119892>>, <<119894, 119964>>, <<119966,
     119967>>, <<119970, 119970>>, <<119973, 119974>>, <<119977, 119980>>,
     <<119982, 119993>>, <<119995, 119995>>, <<119997, 120003>>, <<120005,
     120069>>, <<120071, 120074>>, <<120077, 120084>>, <<120086, 120092>>,
     <<120094, 120121>>, <<120123, 120126>>, <<120128, 120132>>, <<120134,
     120134>>, <<120138, 120144>>, <<120146, 120485>>, <<120488, 120512>>,
     <<120514, 120538>>, <<120540, 120570>>, <<120572, 120596>>, <<120598,
     120628>>, <<120630, 120654>>, <<120656, 120686>>, <<120688, 120712>>,
     <<120714, 120744>>, <<120746, 120770>>, <<120772, 120779>>, <<122624,
     122633>>, <<122635, 122654>>, <<125184, 125251>>, <<127280, 127305>>,
     <<127312, 127337>>, <<127344, 127369>>}

\* The code points with the property Case_Ignorable, as ranges <<lo, hi>>
CaseIgnorableRanges ==
    {<<39, 39>>, <<46, 46>>, <<58, 58>>, <<94, 94>>, <<96, 96>>, <<168,
     168>>, <<173, 173>>, <<175, 175>>, <<180, 180>>, <<183, 184>>, <<688,
     879>>, <<884, 885>>, <<890, 890>>, <<900, 901>>, <<903, 903>>, <<1155,
     1161>>, <<1369, 1369>>, <<1375, 1375>>, <<1425, 1469>>, <<1471, 1471>>,
     <<1473, 1474>>, <<1476, 1477>>, <<1479, 1479>>, <<1524, 1524>>, <<1536,
     1541>>, <<1552, 1562>>, <<1564, 1564>>, <<1600, 1600>>, <<1611, 1631>>,
     <<1648, 1648>>, <<1750, 1757>>, <<1759, 1768>>, <<1770, 1773>>, <<1807,
     1807>>, <<1809, 1809>>, <<1840, 1866>>, <<1958, 1968>>, <<2027, 2037>>,
     <<2042, 2042>>, <<2045, 2045>>, <<2070, 2093>>, <<2137, 2139>>, <<2184,
     2184>>, <<2192, 2193>>, <<2200, 2207>>, <<2249, 2306>>, <<2362, 2362>>,
     <<2364, 2364>>, <<2369, 2376>>, <<2381, 2381>>, <<2385, 2391>>, <<2402,
     2403>>, <<2417, 2417>>, <<2433, 2433>>, <<2492, 2492>>, <<2497, 2500>>,
     <<2509, 2509>>, <<2530, 2531>>, <<2558, 2558>>, <<2561, 2562>>, <<2620,
     2620>>, <<2625, 2626>>, <<2631, 2632>>, <<2635, 2637>>, <<2641, 2641>>,
     <<2672, 2673>>, <<2677, 2677>>, <<2689, 2690>>, <<2748, 2748>>, <<2753,
     2757>>, <<2759, 2760>>, <<2765, 2765>>, <<2786, 2787>>, <<2810, 2815>>,
     <<2817, 2817>>, <<2876, 2876>>, <<2879, 2879>>, <<2881, 2884>>, <<2893,
     2893>>, <<2901, 2902>>, <<2914, 2915>>, <<2946, 2946>>, <<3008, 3008>>,
     <<3021, 3021>>, <<3072, 3072>>, <<3076, 3076>>, <<3132, 3132>>, <<3134,
     3136>>, <<3142, 3144>>, <<3146, 3149>>, <<3157, 3158>>, <<3170, 3171>>,
     <<3201, 3201>>, <<3260, 3260>>, <<3263, 3263>>, <<3270, 3270>>, <<3276,
     3277>>, <<3298, 3299>>, <<3328, 3329>>, <<3387, 3388>>, <<3393, 3396>>,
     <<3405, 3405>>, <<3426, 3427>>, <<3457, 3457>>, <<3530, 3530>>, <<3538,
     3540>>, <<3542, 3542>>, <<3633, 3633>>, <<3636, 3642>>, <<3654, 3662>>,
     <<3761, 3761>>, <<3764, 3772>>, <<3782, 3782>>, <<3784, 3789>>, <<3864,
     3865>>, <<3893, 3893>>, <<3895, 3895>>, <<3897, 3897>>, <<3953, 3966>>,
     <<3968, 3972>>, <<3974, 3975>>, <<3981, 3991>>, <<3993, 4028>>, <<4038,
     4038>>, <<4141, 4144>>, <<4146, 4151>>, <<4153, 4154>>, <<4157, 4158>>,
     <<4184, 4185>>, <<4190, 4192>>, <<4209, 4212>>, <<4226, 4226>>, <<4229,
     4230>>, <<4237, 4237>>, <<4253, 4253>>, <<4348, 4348>>, <<4957, 4959>>,
     <<5906, 5908>>, <<5938, 5939>>, <<5970, 5971>>, <<6002, 6003>>, <<6068,
     6069>>, <<6071, 6077>>, <<6086, 6086>>, <<6089, 6099>>, <<6103, 6103>>,
     <<6109, 6109>>, <<6155, 6159>>, <<6211, 6211>>, <<6277, 6278>>, <<6313,
     6313>>, <<6432, 6434>>, <<6439, 6440>>, <<6450, 6450>>, <<6457, 6459>>,
     <<6679, 6680>>, <<6683, 6683>>, <<6742, 6742>>, <<6744, 6750>>, <<6752,
     6752>>, <<6754, 6754>>, <<6757, 6764>>, <<6771, 6780>>, <<6783, 6783>>,
     <<6823, 6823>>, <<6832, 6862>>, <<6912, 6915>>, <<6964, 6964>>, <<6966,
     6970>>, <<6972, 6972>>, <<6978, 6978>>, <<7019, 7027>>, <<7040, 7041>>,
     <<7074, 7077>>, <<7080, 7081>>, <<7083, 7085>>, <<7142, 7142>>, <<7144,
     7145>>, <<7149, 7149>>, <<7151, 7153>>, <<7212, 7219>>, <<7222, 7223>>,
     <<7288, 7293>>, <<7376, 7378>>, <<7380, 7392>>, <<7394, 7400>>, <<7405,
     7405>>, <<7412, 7412>>, <<7416, 7417>>, <<7468, 7530>>, <<7544, 7544>>,
     <<7579, 7679>>, <<8125, 8125>>, <<8127, 8129>>, <<8141, 8143>>, <<8157,
     8159>>, <<8173, 8175>>, <<8189, 8190>>, <<8203, 8207>>, <<8216, 8217>>,
     <<8228, 8228>>, <<8231, 8231>>, <<8234, 8238>>, <<8288, 8292>>, <<8294,
     8303>>, <<8305, 8305>>, <<8319, 8319>>, <<8336, 8348>>, <<8400, 8432>>,
     <<11388, 11389>>, <<11503, 11505>>, <<11631, 11631>>, <<11647, 11647>>,
     <<11744, 11775>>, <<11823, 11823>>, <<12293, 12293>>, <<12330, 12333>>,
     <<12337, 12341>>, <<12347, 12347>>, <<12441, 12446>>, <<12540, 12542>>,
     <<40981, 40981>>, <<42232, 42237>>, <<42508, 42508>>, <<42607, 42610>>,
     <<42612, 42621>>, <<42623, 42623>>, <<42652, 42655>>, <<42736, 42737>>,
     <<42752, 42785>>, <<42864, 42864>>, <<42888, 42890>>, <<42994, 42996>>,
     <<43000, 43001>>, <<43010, 43010>>, <<43014, 43014>>, <<43019, 43019>>,
     <<43045, 43046>>, <<43052, 43052>>, <<43204, 43205>>, <<43232, 43249>>,
     <<43263, 43263>>, <<43302, 43309>>, <<43335, 43345>>, <<43392, 43394>>,
     <<43443, 43443>>, <<43446, 43449>>, <<43452, 43453>>, <<43471, 43471>>,
     <<43493, 43494>>, <<43561, 43566>>, <<43569, 43570>>, <<43573, 43574>>,
     <<43587, 43587>>, <<43596, 43596>>, <<43632, 43632>>, <<43644, 43644>>,
     <<43696, 43696>>, <<43698, 43700>>, <<43703, 43704>>, <<43710, 43711>>,
     <<43713, 43713>>, <<43741, 43741>>, <<43756, 43757>>, <<43763, 43764>>,
     <<43766, 43766>>, <<43867, 43871>>, <<43881, 43883>>, <<44005, 44005>>,
     <<44008, 44008>>, <<44013, 44013>>, <<64286, 64286>>, <<64434, 64450>>,
     <<65024, 65039>>, <<65043, 65043>>, <<65056, 65071>>, <<65106, 65106>>,
     <<65109, 65109>>, <<65279, 65279>>, <<65287, 65287>>, <<65294, 65294>>,
     <<65306, 65306>>, <<65342, 65342>>, <<65344, 65344>>, <<65392, 65392>>,
     <<65438, 65439>>, <<65507, 65507>>, <<65529, 65531>>, <<66045, 66045>>,
     <<66272, 66272>>, <<66422, 66426>>, <<67456, 67461>>, <<67463, 67504>>,
     <<67506, 67514>>, <<68097, 68099>>, <<68101, 68102>>, <<68108, 68111>>,
     <<68152, 68154>>, <<68159, 68159>>, <<68325, 68326>>, <<68900, 68903>>,
     <<69291, 69292>>, <<69446, 69456>>, <<69506, 69509>>, <<69633, 69633>>,
     <<69688, 69702>>, <<69744, 69744>>, <<69747, 69748>>, <<69759, 69761>>,
     <<69811, 69814>>, <<69817, 69818>>, <<69821, 69821>>, <<69826, 69826>>,
     <<69837, 69837>>, <<69888, 69890>>, <<69927, 69931>>, <<69933, 69940>>,
     <<70003, 70003>>, <<70016, 70017>>, <<70070, 70078>>, <<70089, 70092>>,
     <<70095, 70095>>, <<70191, 70193>>, <<70196, 70196>>, <<70198, 70199>>,
     <<70206, 70206>>, <<70367, 70367>>, <<70371, 70378>>, <<70400, 70401>>,
     <<70459, 70460>>, <<70464, 70464>>, <<70502, 70508>>, <<70512, 70516>>,
     <<70712, 70719>>, <<70722, 70724>>, <<70726, 70726>>, <<70750, 70750>>,
     <<70835, 70840>>, <<70842, 70842>>, <<70847, 70848>>, <<70850, 70851>>,
     <<71090, 71093>>, <<71100, 71101>>, <<71103, 71104>>, <<71132, 71133>>,
     <<71219, 71226>>, <<71229, 71229>>, <<71231, 71232>>, <<71339, 71339>>,
     <<71341, 71341>>, <<71344, 71349>>, <<71351, 71351>>, <<71453, 71455>>,
     <<71458, 71461>>, <<71463, 71467>>, <<71727, 71735>>, <<71737, 71738>>,
     <<71995, 71996>>, <<71998, 71998>>, <<72003, 72003>>, <<72148, 72151>>,
     <<72154, 72155>>, <<72160, 72160>>, <<72193, 72202>>, <<72243, 72248>>,
     <<72251, 72254>>, <<72263, 72263>>, <<72273, 72278>>, <<72281, 72283>>,
     <<72330, 72342>>, <<72344, 72345>>, <<72752, 72758>>, <<72760, 72765>>,
     <<72767, 72767>>, <<72850, 72871>>, <<72874, 72880>>, <<72882, 72883>>,
     <<72885, 72886>>, <<73009, 73014>>, <<73018, 73018>>, <<73020, 73021>>,
     <<73023, 73029>>, <<73031, 73031>>, <<73104, 73105>>, <<73109, 73109>>,
     <<73111, 73111>>, <<73459, 73460>>, <<78896, 78904>>, <<92912, 92916>>,
     <<92976, 92982>>, <<92992, 92995>>, <<94031, 94031>>, <<94095, 94111>>,
     <<94176, 94177>>, <<94179, 94180>>, <<110576, 110579>>, <<110581,
     110587>>, <<110589, 110590>>, <<113821, 113822>>, <<113824, 113827>>,
     <<118528, 118573>>, <<118576, 118598>>, <<119143, 119145>>, <<119155,
     119170>>, <<119173, 119179>>, <<119210, 119213>>, <<119362, 119364>>,
     <<121344, 121398>>, <<121403, 121452>>, <<121461, 121461>>, <<121476,
     121476>>, <<121499, 121503>>, <<121505, 121519>>, <<122880, 122886>>,
     <<122888, 122904>>, <<122907, 122913>>, <<122915, 122916>>, <<122918,
     122922>>, <<123184, 123197>>, <<123566, 123566>>, <<123628, 123631>>,
     <<125136, 125142>>, <<125252, 125259>>, <<127995, 127999>>, <<917505,
     917505>>, <<917536, 917631>>, <<917760, 917999>>}

IsCased(c) == \E r \in CasedRanges : r[1] <= c /\ c <= r[2]

IsCaseIgnorable(c) == \E r \in CaseIgnorableRanges : r[1] <= c /\ c <= r[2]

\* The lowercase of one code point other than U+03A3: U+0130 gives the two
\* code points U+0069 U+0307, every other code point gives one
LowerChar(c) ==
    LET mapped == {r \in LowerRanges :
                      r[1] <= c /\ c <= r[2] /\ (c - r[1]) % r[3] = 0}
    IN  IF c = 304 THEN <<105, 775>>
        ELSE IF mapped # {} THEN <<c + (CHOOSE r \in mapped : TRUE)[4]>>
        ELSE <<c>>

\* The capital sigma at place i of s is in the Final_Sigma context: the
\* nearest code point before it that is not case-ignorable is cased, and the
\* nearest one after it that is not case-ignorable, if there is one, is not
\* cased
FinalSigma(s, i) ==
    LET before == {j \in 1..(i - 1) : ~IsCaseIgnorable(s[j])}
        after == {j \in (i + 1)..Len(s) : ~IsCaseIgnorable(s[j])}
        Last(S) == CHOOSE j \in S : \A k \in S : k <= j
        First(S) == CHOOSE j \in S : \A k \in S : j <= k
    IN  /\ before # {}
        /\ IsCased(s[Last(before)])
        /\ after # {} => ~IsCased(s[First(after)])

RECURSIVE LowerFrom(_, _)
\* The lowercase of s from place i on
LowerFrom(s, i) ==
    IF i > Len(s) THEN <<>>
    ELSE (IF s[i] = 931
          THEN <<IF FinalSigma(s, i) THEN 962 ELSE 963>>
          ELSE LowerChar(s[i])) \o LowerFrom(s, i + 1)

\* str.lower()
Lower(s) == LowerFrom(s, 1)

\* keyword in clean_text
Contains(s, kw) ==
    \E i \in 1..(Len(s) - Len(kw) + 1) : SubSeq(s, i, i + Len(kw) - 1) = kw

----------------------------------------------------------------------------
(* utils.py: Config *)

TEXT_CONFIDENCE == 40

MAX_ANNOUNCEMENTS == 4

PriorityLabels ==
    {"vehicle", "person", "bicycle", "animal", "chair", "bench",
     "traffic light", "stop sign", "important_text", "text", "object",
     "road", "sidewalk", "building", "vegetation"}

OBJECT_PRIORITY ==
    [l \in PriorityLabels |->
        CASE l = "vehicle" -> 10
          [] l = "person" -> 9
          [] l = "bicycle" -> 8
          [] l = "animal" -> 7
          [] l \in {"chair", "bench"} -> 6
          [] l \in {"traffic light", "stop sign"} -> 5
          [] l = "important_text" -> 4
          [] l = "text" -> 3
          [] l = "object" -> 2
          [] OTHER -> 1]

----------------------------------------------------------------------------
(* object_detector.py *)

\* The keys of a dict of the code that are equal to the str s
KeysEqual(keys, s) == {k \in keys : Str(k) = s}

NavClassNames ==
    {"person", "car", "truck", "bus", "motorcycle", "bicycle",
     "traffic light", "stop sign", "chair", "bench", "cat", "dog", "bird"}

navigation_classes ==
    [l \in NavClassNames |->
        CASE l \in {"car", "truck", "bus", "motorcycle"} -> "vehicle"
          [] l \in {"cat", "dog", "bird"} -> "animal"
          [] OTHER -> l]

ReferenceLabels ==
    {"person", "vehicle", "bicycle", "animal", "chair", "bench",
     "traffic light", "stop sign", "object", "default"}

\* the literals 1.7, 1.5, 1.0, 0.5 and 2.0
reference_sizes ==
    [l \in ReferenceLabels |->
        CASE l = "person" -> DRat(17, 10)
          [] l = "vehicle" -> DRat(15, 10)
          [] l \in {"bicycle", "chair", "bench", "default"} -> DRat(10, 10)
          [] l \in {"animal", "object"} -> DRat(5, 10)
          [] OTHER -> DRat(20, 10)]

focal_length == 500

_calculate_object_distance(bbox_height, object_type) ==
    LET real_height == IF object_type \in ReferenceLabels
                       THEN reference_sizes[object_type]
                       ELSE reference_sizes["default"]
        distance == DDivInt(DMulInt(focal_length, real_height), bbox_height)
    IN  IF bbox_height > 0
        THEN DMax(DRat(1, 2), DMin(distance, DInt(20)))
        ELSE DInt(20)

\* x_center = (x1 + x2) / 2 against frame_width / 3 and 2 * frame_width / 3
_get_object_position(bbox, frame_width) ==
    IF 3 * (bbox[1] + bbox[3]) < 2 * frame_width THEN "left"
    ELSE IF 3 * (bbox[1] + bbox[3]) < 4 * frame_width THEN "center"
    ELSE "right"

_get_distance_category(distance) ==
    IF DLess(distance, DInt(2)) THEN "very close"
    ELSE IF DLess(distance, DInt(4)) THEN "close"
    ELSE IF DLess(distance, DInt(7)) THEN "moderate distance"
    ELSE IF DLess(distance, DInt(10)) THEN "far"
    ELSE "very far"

\* The same record with the priority looked up under the model's class name
ObjectInfoRawPriority(box, frame_width) ==
    LET key == KeysEqual(NavClassNames, Lower(box.label))
        nav_label == IF key # {}
                     THEN navigation_classes[CHOOSE k \in key : TRUE]
                     ELSE "object"
        bbox_height == box.y2 - box.y1
        distance == _calculate_object_distance(bbox_height, nav_label)
    IN  [type |-> "object",
         label |-> nav_label,
         distance |-> distance,
         distance_category |-> _get_distance_category(distance),
         position |-> _get_object_position(<<box.x1, box.y1, box.x2, box.y2>>,
                                           frame_width),
         bbox |-> <<box.x1, box.y1, box.x2, box.y2>>,
         confidence |-> box.conf,
         priority |-> LET raw == KeysEqual(PriorityLabels, Lower(box.label))
                      IN  IF raw # {}
                          THEN OBJECT_PRIORITY[CHOOSE k \in raw : TRUE]
                          ELSE 2]

\* One box of the detector's result: [label, x1, y1, x2, y2, conf], label
\* being the class name of the model, a str.
ObjectInfo(box, frame_width) ==
    LET key == KeysEqual(NavClassNames, Lower(box.label))
        nav_label == IF key # {}
                     THEN navigation_classes[CHOOSE k \in key : TRUE]
                     ELSE "object"
        bbox_height == box.y2 - box.y1
        distance == _calculate_object_distance(bbox_height, nav_label)
    IN  [type |-> "object",
         label |-> nav_label,
         distance |-> distance,
         distance_category |-> _get_distance_category(distance),
         position |-> _get_object_position(<<box.x1, box.y1, box.x2, box.y2>>,
                                           frame_width),
         bbox |-> <<box.x1, box.y1, box.x2, box.y2>>,
         confidence |-> box.conf,
         priority |-> IF nav_label \in PriorityLabels
                      THEN OBJECT_PRIORITY[nav_label] ELSE 2]

\* detect_objects on the boxes the YOLO model returned for the frame
detect_objects(boxes, frame_width) ==
    [i \in 1..Len(boxes) |-> ObjectInfo(boxes[i], frame_width)]

----------------------------------------------------------------------------
(* text_detector.py *)

important_keywords ==
    <<"exit", "entrance", "warning", "danger", "caution", "stop",
      "stairs", "elevator", "escalator", "crosswalk", "curb",
      "emergency", "hospital", "police", "fire", "help">>

text_size_reference == 100

SeqMax(s) == CHOOSE m \in {s[i] : i \in DOMAIN s} :
                 \A i \in DOMAIN s : s[i] <= m

SeqMin(s) == CHOOSE m \in {s[i] : i \in DOMAIN s} :
                 \A i \in DOMAIN s : m <= s[i]

RECURSIVE SeqSum(_)
SeqSum(s) == IF Len(s) = 0 THEN 0 ELSE s[1] + SeqSum(Tail(s))

\* (text_size_reference * 2.0) / bbox_height in [0.5, 15.0]; 10.0 for a
\* height that is not positive
_calculate_text_distance(bbox_height) ==
    LET distance == DDivInt(DMulInt(text_size_reference, DInt(2)),
                            bbox_height)
    IN  IF bbox_height <= 0 THEN DInt(10)
        ELSE DMax(DRat(1, 2), DMin(distance, DInt(15)))

\* x_center = sum(x) / len(x) against the thirds of the frame
_get_text_position(bbox, frame_width) ==
    LET x_coords == [i \in 1..Len(bbox) |-> bbox[i][1]]
    IN  IF 3 * SeqSum(x_coords) < Len(bbox) * frame_width THEN "left"
        ELSE IF 3 * SeqSum(x_coords) < 2 * Len(bbox) * frame_width
             THEN "center"
        ELSE "right"

\* The result is <<record>>, or <<>> for None (a polygon with fewer than four
\* points)
_process_text_detection(bbox, text, confidence, frame_width) ==
    LET clean_text == Lower(Strip(text))
        y_coords == [i \in 1..Len(bbox) |-> bbox[i][2]]
        text_height == SeqMax(y_coords) - SeqMin(y_coords)
        distance == _calculate_text_distance(text_height)
        is_important == \E k \in DOMAIN important_keywords :
                            Contains(clean_text, Str(important_keywords[k]))
    IN  IF Len(bbox) >= 4
        THEN <<[type |-> "text",
               text |-> clean_text,
              confidence |-> confidence,
              bbox |-> bbox,
              position |-> _get_text_position(bbox, frame_width),
              distance |-> distance,
              distance_category |-> _get_distance_category(distance),
              is_important |-> is_important,
              priority |-> IF is_important THEN 4 ELSE 3]>>
        ELSE <<>>

RECURSIVE DetectedTexts(_, _)
DetectedTexts(results, frame_width) ==
    IF Len(results) = 0 THEN <<>>
    ELSE LET r == Head(results)
             rest == DetectedTexts(Tail(results), frame_width)
             text_data == _process_text_detection(r.bbox, r.text,
                                                  r.confidence, frame_width)
         IN  IF r.confidence > TEXT_CONFIDENCE /\ Len(Strip(r.text)) > 1
                /\ Len(text_data) > 0
             THEN text_data \o rest
             ELSE rest

\* detect_text: reader is "None" | "ok" | "raises" (readtext raising);
\* results is what readtext returned
detect_text(reader, results, frame_width) ==
    IF reader = "None" THEN <<>>
    ELSE IF reader = "raises" THEN <<>>
    ELSE DetectedTexts(results, frame_width)

----------------------------------------------------------------------------
(* navigation_system.py: ranking, selection, formatting *)

\* The two code points U+26A0 U+FE0F that open the warning sentence
WarningSign == <<9888, 65039>>

\* dict.get(key, default)
Get(item, key, default) == IF key \in DOMAIN item THEN item[key] ELSE default

\* The score is a float: line 168 rounds the difference, line 178 the sum
\* with the boost and line 180 the sum with the base
_get_comprehensive_priority(item) ==
    LET base_priority == Get(item, "priority", 1)
        distance == Get(item, "distance", DInt(10))
        position == Get(item, "position", "right")
        \* max(0, 10 - distance) / 2
        distance_factor == IF DLess(distance, DInt(10))
                           THEN DHalf(DSub(DInt(10), distance))
                           ELSE DInt(0)
        position_factor == IF position = "center" THEN 2 ELSE 1
        critical == /\ Get(item, "type", "None") = "object"
                    /\ position = "center"
                    /\ DLess(distance, DInt(3))
                    /\ Get(item, "label", "None") \in
                           {"vehicle", "person", "bicycle"}
        boosted == IF critical THEN DAdd(distance_factor, DInt(3))
                   ELSE distance_factor
    IN  DAdd(DInt(base_priority * position_factor), boosted)

_format_object_announcement(item) ==
    IF item.position = "center" /\ DLess(item.distance, DInt(3))
    THEN IF item.label \in {"vehicle", "person", "bicycle"}
         THEN WarningSign \o Str(" WARNING! " \o item.label
                                     \o " directly ahead, "
                                     \o item.distance_category)
         ELSE Str("Obstacle directly ahead, " \o item.distance_category)
    ELSE Str(item.label \o " on your " \o item.position \o ", "
                 \o item.distance_category)

_format_text_announcement(item) ==
    IF item.is_important
    THEN Str("Sign: ") \o item.text
             \o Str(" " \o item.distance_category \o " on your "
                        \o item.position)
    ELSE Str("Text: ") \o item.text

RECURSIVE InsertUnstable(_, _)
InsertUnstable(sorted, item) ==
    IF Len(sorted) = 0 THEN <<item>>
    ELSE IF ~DLess(_get_comprehensive_priority(item),
                   _get_comprehensive_priority(Head(sorted)))
         THEN <<item>> \o sorted
         ELSE <<Head(sorted)>> \o InsertUnstable(Tail(sorted), item)

RECURSIVE SortUnstable(_)
SortUnstable(items) ==
    IF Len(items) = 0 THEN <<>>
    ELSE InsertUnstable(SortUnstable(SubSeq(items, 1, Len(items) - 1)),
                        items[Len(items)])

RECURSIVE InsertByPriority(_, _)
\* item goes behind every element whose key is not smaller than its own
InsertByPriority(sorted, item) ==
    IF Len(sorted) = 0 THEN <<item>>
    ELSE IF DLess(_get_comprehensive_priority(Head(sorted)),
                  _get_comprehensive_priority(item))
         THEN <<item>> \o sorted
         ELSE <<Head(sorted)>> \o InsertByPriority(Tail(sorted), item)

RECURSIVE SortByPriority(_)
\* all_detections.sort(key=self._get_comprehensive_priority, reverse=True):
\* a stable sort, descending
SortByPriority(items) ==
    IF Len(items) = 0 THEN <<>>
    ELSE InsertByPriority(SortByPriority(SubSeq(items, 1, Len(items) - 1)),
                          items[Len(items)])

RECURSIVE AnnounceLoop(_, _)
\* the for loop of _generate_announcement: the list messages
AnnounceLoop(items, announced_count) ==
    IF Len(items) = 0 \/ announced_count >= MAX_ANNOUNCEMENTS THEN <<>>
    ELSE LET item == Head(items)
         IN  IF item.type = "object"
             THEN <<_format_object_announcement(item)>>
                      \o AnnounceLoop(Tail(items), announced_count + 1)
             ELSE IF item.type = "text"
                     /\ announced_count < MAX_ANNOUNCEMENTS
             THEN <<_format_text_announcement(item)>>
                      \o AnnounceLoop(Tail(items), announced_count + 1)
             ELSE AnnounceLoop(Tail(items), announced_count)

\* the literal "Path clear"
PathClear == Str("Path clear")

RECURSIVE Join(_, _)
\* sep.join(messages)
Join(messages, sep) ==
    IF Len(messages) = 0 THEN <<>>
    ELSE IF Len(messages) = 1 THEN messages[1]
    ELSE messages[1] \o sep \o Join(Tail(messages), sep)

\* The locals of _generate_announcement when it returns: the list as sorted in
\* place, the list messages and the value returned.
GenerateAnnouncement(all_detections) ==
    IF Len(all_detections) = 0
    THEN [sorted |-> <<>>, messages |-> <<>>, result |-> PathClear]
    ELSE LET sorted == SortByPriority(all_detections)
             messages == AnnounceLoop(sorted, 0)
         IN  [sorted |-> sorted,
              messages |-> messages,
              result |-> IF Len(messages) > 0
                         THEN Join(messages, Str(". "))
                         ELSE PathClear]

_generate_announcement(all_detections) ==
    GenerateAnnouncement(all_detections).result

----------------------------------------------------------------------------
(* scene_analyzer.py *)

\* The rows of immediate_path: seg_map[int(h * 0.7):, :]
ImmediateRows(h) == h - DTrunc(DMulInt(h, DRat(7, 10)))

\* The map is given by its shape (h, w) and the number of road pixels
\* (class 0) in immediate_path. road_percentage > 60 is
\* road_pixels * 100 > 60 * total_pixels.
_analyze_segmentation_map(h, w, road_pixels) ==
    LET total_pixels == ImmediateRows(h) * w
    IN  IF total_pixels > 0
        THEN IF road_pixels * 100 > 60 * total_pixels
             THEN [guidance |-> <<"Clear path ahead">>,
                   environment |-> "road"]
             ELSE IF road_pixels * 100 > 30 * total_pixels
             THEN [guidance |-> <<"Moderate path clarity">>,
                   environment |-> "mixed"]
             ELSE [guidance |-> <<"Obstructed path ahead">>,
                   environment |-> "obstructed"]
        ELSE [guidance |-> <<>>, environment |-> "unknown"]

\* _perform_segmentation writes class 0 (road) or 10 (sky, top third only)
\* into a map of zeros, so every pixel of the bottom 30% is road
analyze_scene(f) ==
    _analyze_segmentation_map(f.height, f.width,
                              ImmediateRows(f.height) * f.width)

----------------------------------------------------------------------------
(* Bounds and inputs of the frame loop *)

\* ticks the clock is followed while the caller has made no call
MaxTime == 5

\* ticks the clock is followed after the caller's first call
MaxSpan == 2

MaxFrames == 2

Threads == 1..MaxFrames

\* None, for video_start_time
NoTime == -1

\* None, for a message: no str
NoMessage == <<-1>>

\* the time up to which the clock is followed
ClockCap == IF history.first_call = NoTime THEN MaxTime
            ELSE history.first_call + MaxSpan

\* the caller has called neither process_video nor process_image
NeverCalled == video_start_time = NoTime /\ frames_done = 0

\* 2.0 seconds, in ticks
TEXT_COOLDOWN == 4

\* time.sleep(0.5), in ticks
DEBOUNCE == 1

Box(label, x1, y1, x2, y2) ==
    [label |-> label, x1 |-> x1, y1 |-> y1, x2 |-> x2, y2 |-> y2, conf |-> 80]

\* What the frame source hands over: the frame's shape, the boxes the
\* object detector finds in it and the results an OCR reader would return
\* for it (none: the frames show no text).
SysFrames ==
    {[height |-> 400, width |-> 300, boxes |-> <<>>, results |-> <<>>],
     [height |-> 400, width |-> 300,
      boxes |-> <<Box(Str("car"), 100, 0, 200, 400)>>, results |-> <<>>]}

NoFrame == [height |-> 0, width |-> 0, boxes |-> <<>>, results |-> <<>>]

NoAnalysis == [guidance |-> <<>>, environment |-> "unknown"]

----------------------------------------------------------------------------
(* audio_manager.py *)

Digit(d) == SubSeq("0123456789", d + 1, d + 1)

RECURSIVE IntToStr(_)
IntToStr(n) == IF n < 10 THEN Digit(n) ELSE IntToStr(n \div 10) \o Digit(n % 10)

\* f"{n:02d}": the sign counts for the width
TwoDigits(n) ==
    IF n < 0 THEN "-" \o IntToStr(-n)
    ELSE IF n < 10 THEN "0" \o Digit(n) ELSE IntToStr(n)

\* timestamp in seconds, a rational; minutes = int(t // 60), seconds =
\* int(t % 60), both by floor division (a timestamp below 0 has minutes
\* below 0)
_format_timestamp(timestamp) ==
    LET whole == timestamp[1] \div timestamp[2]
    IN  TwoDigits(whole \div 60) \o ":" \o TwoDigits(whole % 60)

RECURSIVE ReplaceColon(_)
\* timestamp_str.replace(':', '-')
ReplaceColon(str) ==
    IF Len(str) = 0 THEN ""
    ELSE (IF SubSeq(str, 1, 1) = ":" THEN "-" ELSE SubSeq(str, 1, 1))
             \o ReplaceColon(SubSeq(str, 2, Len(str)))

\* the file name _generate_tts_audio gives: int(time.time() * 1000) is 500
\* per tick
TtsFilename(timestamp_str, t) ==
    "audio_" \o ReplaceColon(timestamp_str) \o "_" \o IntToStr(t * 500)
        \o ".mp3"

\* The locals of speak_text: the value of time.time() that line 29 read
\* (NoTime: not read), timestamp and audio_filename once they are computed,
\* and the end of the sleep of line 54 once it has begun
NoLocal ==
    [clock |-> NoTime, timestamp |-> <<0, 1>>, audio_filename |-> "None",
     wake |-> 0]

\* The check as it would be with a slot that is never freed once used
RejectedOnceUsed(text) == text = <<>> \/ speaking \/ audio_files # <<>>

\* if not text or self.speaking: return
Rejected(text) == text = <<>> \/ speaking

\* with self.audio_lock: the lock can be taken
CanAcquireAlways == TRUE

CanAcquire == audio_lock = 0

AppendEntryFront(log, entry) == <<entry>> \o log

\* self.audio_timestamps.append({...})
AppendEntry(log, entry) == Append(log, entry)

\* lines 22-23: the request is dropped ("dropped": returned at line 23), or
\* goes on to the lock
SpeakCheck(t) ==
    /\ tpc[t] = "check"
    /\ tpc' = [tpc EXCEPT ![t] = IF Rejected(ttext[t]) THEN "dropped"
                                 ELSE "acquire"]
    /\ UNCHANGED <<now, last_announcement, video_start_time, mainpc, mode,
                   frames_done, framevars, speaking, audio_lock,
                   audio_files, audio_timestamps, ttext, tlocal, history,
                   music_busy>>
    /\ UNCHANGED fusevars

\* line 25: with self.audio_lock
SpeakAcquire(t) ==
    /\ tpc[t] = "acquire"
    /\ CanAcquire
    /\ audio_lock' = t
    /\ tpc' = [tpc EXCEPT ![t] = "try"]
    /\ UNCHANGED <<now, last_announcement, video_start_time, mainpc, mode,
                   frames_done, framevars, speaking,
                   audio_files, audio_timestamps, ttext, tlocal, history,
                   music_busy>>
    /\ UNCHANGED fusevars

\* lines 26-29, up to the call of time.time(): speaking = True; speak_text
\* is called without a timestamp, so with a start time set (a nonzero epoch
\* time) the clock is read
SpeakTry(t) ==
    /\ tpc[t] = "try"
    /\ speaking' = TRUE
    /\ tlocal' = [tlocal EXCEPT ![t].clock =
                     IF video_start_time # NoTime THEN now ELSE NoTime]
    /\ tpc' = [tpc EXCEPT ![t] = "stamp"]
    /\ UNCHANGED <<now, last_announcement, video_start_time, mainpc, mode,
                   frames_done, framevars, audio_lock, audio_files,
                   audio_timestamps, ttext, music_busy, history>>
    /\ UNCHANGED fusevars

\* lines 29-33 and 57-58: video_start_time is read (without a lock: a
\* process_video called since the clock was read has set it again) and
\* subtracted; timestamp or 0 leaves the number as it is; the print; the gTTS
\* object
SpeakStamp(t) ==
    /\ tpc[t] = "stamp"
    /\ tlocal' = [tlocal EXCEPT ![t].timestamp =
                     IF tlocal[t].clock # NoTime
                     THEN <<tlocal[t].clock - video_start_time, 2>>
                     ELSE <<0, 1>>]
    /\ tpc' = [tpc EXCEPT ![t] = "name"]
    /\ UNCHANGED <<now, last_announcement, video_start_time, mainpc, mode,
                   frames_done, framevars, speaking, audio_lock, audio_files,
                   audio_timestamps, ttext, music_busy, history>>
    /\ UNCHANGED fusevars

\* line 59: the file name, from timestamp_str and a second reading of the
\* clock. The thread then waits in tts.save
SpeakName(t) ==
    /\ tpc[t] = "name"
    /\ tlocal' = [tlocal EXCEPT ![t].audio_filename =
                     TtsFilename(_format_timestamp(tlocal[t].timestamp), now)]
    /\ tpc' = [tpc EXCEPT ![t] = "saving"]
    /\ UNCHANGED <<now, last_announcement, video_start_time, mainpc, mode,
                   frames_done, framevars, speaking, audio_lock, audio_files,
                   audio_timestamps, ttext, music_busy, history>>
    /\ UNCHANGED fusevars

\* lines 60-62 and 39-45: tts.save (a request to the speech service) raises,
\* or it returns and the file name and the entry are appended
SpeakSaved(t) ==
    /\ tpc[t] = "saving"
    /\ \/ /\ tpc' = [tpc EXCEPT ![t] = "finally"]
          /\ history' = [history EXCEPT !.failed[t] = "synth"]
          /\ UNCHANGED <<audio_files, audio_timestamps>>
       \/ /\ audio_files' = Append(audio_files, tlocal[t].audio_filename)
          /\ audio_timestamps' =
                 AppendEntry(audio_timestamps,
                             [filename |-> tlocal[t].audio_filename,
                              timestamp |-> tlocal[t].timestamp,
                              timestamp_str |->
                                  _format_timestamp(tlocal[t].timestamp),
                              text |-> ttext[t]])
          /\ tpc' = [tpc EXCEPT ![t] = "play"]
          /\ UNCHANGED history
    /\ UNCHANGED <<now, last_announcement, video_start_time, mainpc, mode,
                   frames_done, framevars, speaking, audio_lock, ttext,
                   tlocal, music_busy>>
    /\ UNCHANGED fusevars

\* line 48, play_audio up to utils.py line 47: the playback is started (the
\* pygame branch, which catches what it raises and then starts nothing; the
\* notebook branch only displays a player), or the notebook branch raises
SpeakPlay(t) ==
    /\ tpc[t] = "play"
    /\ \/ /\ tpc' = [tpc EXCEPT ![t] = "playing"]
          /\ music_busy' \in {TRUE, music_busy}
          /\ UNCHANGED history
       \/ /\ tpc' = [tpc EXCEPT ![t] = "finally"]
          /\ history' = [history EXCEPT !.failed[t] = "play"]
          /\ UNCHANGED music_busy
    /\ UNCHANGED <<now, last_announcement, video_start_time, mainpc, mode,
                   frames_done, framevars, speaking, audio_lock,
                   audio_files, audio_timestamps, ttext, tlocal>>
    /\ UNCHANGED fusevars

\* line 48: play_audio returns. utils.py line 47 started the sound and the
\* loop of lines 48-49 is left when get_busy() is false, or, the sound still
\* audible, by the NameError of line 49 (utils.py does not import time) that
\* line 50 catches: in both cases play_audio returns and the sound is as it
\* was
SpeakPlayed(t) ==
    /\ tpc[t] = "playing"
    /\ tpc' = [tpc EXCEPT ![t] = "finally"]
    /\ UNCHANGED <<now, last_announcement, video_start_time, mainpc, mode,
                   frames_done, framevars, speaking, audio_lock,
                   audio_files, audio_timestamps, ttext, tlocal, history,
                   music_busy>>
    /\ UNCHANGED fusevars

\* lines 50-54: the exception, if any, is caught; speaking = False; the sleep
\* begins
SpeakFinally(t) ==
    /\ tpc[t] = "finally"
    /\ speaking' = FALSE
    /\ tlocal' = [tlocal EXCEPT ![t].wake = now + DEBOUNCE]
    /\ tpc' = [tpc EXCEPT ![t] = "sleeping"]
    /\ UNCHANGED <<now, last_announcement, video_start_time, mainpc, mode,
                   frames_done, framevars, audio_lock,
                   audio_files, audio_timestamps, ttext, history,
                   music_busy>>
    /\ UNCHANGED fusevars

ExceptionNotCaught == FALSE

\* lines 50-51: except Exception catches what the try body raised
ExceptionCaught == TRUE

\* line 54 ends and the with block releases the lock; an exception that was
\* not caught would leave speak_text now ("crashed")
SpeakRelease(t) ==
    /\ tpc[t] = "sleeping"
    /\ now >= tlocal[t].wake
    /\ audio_lock' = 0
    /\ tpc' = [tpc EXCEPT ![t] =
                 IF history.failed[t] # "no" /\ ~ExceptionCaught
                 THEN "crashed" ELSE "done"]
    /\ tlocal' = [tlocal EXCEPT ![t] = NoLocal]
    /\ UNCHANGED <<now, last_announcement, video_start_time, mainpc, mode,
                   frames_done, framevars, speaking,
                   audio_files, audio_timestamps, ttext, history,
                   music_busy>>
    /\ UNCHANGED fusevars

----------------------------------------------------------------------------
(* navigation_system.py: process_video, process_image, process_frame *)

\* An exception leaves process_frame and, through the callback, the public
\* method that called it (process_video's finally only releases the files):
\* the caller is at "raised", holding the exception.
RaiseFromFrame ==
    /\ mainpc' = "raised"
    /\ mode' = "none"
    /\ frame' = NoFrame
    /\ objects_info' = <<>>
    /\ text_info' = <<>>
    /\ seg_analysis' = NoAnalysis
    /\ message' = NoMessage

\* the time of the caller's first call is noted
NoteCall ==
    history' = [history EXCEPT !.first_call = IF @ = NoTime THEN now ELSE @]

\* line 211 and the set-up of VideoProcessor.process_video. The caller makes
\* one call of a public method (as main_execution.py does), and another only
\* when a call before raised.
ProcessVideo ==
    /\ \/ mainpc = "ready" /\ NeverCalled
       \/ mainpc = "raised"
    /\ frames_done < MaxFrames
    /\ video_start_time' = now
    /\ mode' = "video"
    /\ mainpc' = "loop"
    /\ NoteCall
    /\ UNCHANGED <<now, last_announcement, frames_done, framevars, speechvars>>
    /\ UNCHANGED fusevars

\* process_image, lines 228-237, and video_processor.py lines 52-53:
\* cv2.imread gives the image, which the callback hands to process_frame, or
\* None for a file it cannot decode, and line 34 of process_frame then raises
\* AttributeError. video_start_time is left as it is.
ProcessImage ==
    /\ \/ mainpc = "ready" /\ NeverCalled
       \/ mainpc = "raised"
    /\ frames_done < MaxFrames
    /\ frames_done' = frames_done + 1
    /\ \/ /\ \E f \in SysFrames : frame' = f
          /\ mode' = "image"
          /\ mainpc' = "detect_objects"
          /\ UNCHANGED <<objects_info, text_info, seg_analysis, message>>
       \/ RaiseFromFrame
    /\ NoteCall
    /\ UNCHANGED <<now, last_announcement, video_start_time, speechvars>>
    /\ UNCHANGED fusevars

\* video_processor.py lines 27-33: cap.read() gives the next frame, or the
\* stream is exhausted
VideoRead ==
    /\ mainpc = "loop"
    /\ \/ /\ frames_done < MaxFrames
          /\ \E f \in SysFrames : frame' = f
          /\ frames_done' = frames_done + 1
          /\ mainpc' = "detect_objects"
       \/ /\ mainpc' = "merge_check"
          /\ UNCHANGED <<frame, frames_done>>
    /\ UNCHANGED <<now, last_announcement, video_start_time, mode,
                   objects_info, text_info, seg_analysis, message, speechvars, history>>
    /\ UNCHANGED fusevars

\* line 37: the detector returns its records, or its model raises
DetectObjects ==
    /\ mainpc = "detect_objects"
    /\ \/ /\ objects_info' = detect_objects(frame.boxes, frame.width)
          /\ mainpc' = "detect_text"
          /\ UNCHANGED <<mode, frame, text_info, seg_analysis,
                         message>>
       \/ RaiseFromFrame
    /\ UNCHANGED <<now, last_announcement, video_start_time, frames_done,
                   speechvars, history>>
    /\ UNCHANGED fusevars

GatePasses(current_time) == (current_time - last_announcement) > TEXT_COOLDOWN

\* The object has the attribute as it would with an assignment
CurrentFrameAssignedAlways == TRUE

\* The object has the attribute _current_frame: no line of the code assigns
\* it
CurrentFrameAssigned == FALSE

\* TextDetector.reader as the constructor leaves it: None (EasyOCR is not
\* installed, or its Reader raised) or a reader
TextReaders == {"None", "ok"}

\* line 38, _detect_text_with_cooldown: when the gate passes, the argument
\* self._current_frame of the detector call is read first; without the
\* attribute the read raises AttributeError and the detector is not entered.
\* Only with the attribute is detect_text invoked (and the invocation
\* noted): with the reader the constructor left, which no other step reads
\* and which is the same at every invocation (history.reader is its value
\* once an invocation has read it).
DetectTextWithCooldown ==
    /\ mainpc = "detect_text"
    /\ IF GatePasses(now)
       THEN IF CurrentFrameAssigned
            THEN \E reader \in TextReaders :
                     /\ history.reader \in {"unread", reader}
                     /\ text_info' = detect_text(reader, frame.results,
                                                 frame.width)
                     /\ mainpc' = "analyze_scene"
                     /\ history' = [history EXCEPT !.ocr_calls = @ + 1,
                                                   !.last_ocr = now,
                                                   !.reader = reader]
                     /\ UNCHANGED <<mode, frame, objects_info, seg_analysis,
                                    message>>
            ELSE /\ RaiseFromFrame
                 /\ UNCHANGED history
       ELSE /\ text_info' = <<>>
            /\ mainpc' = "analyze_scene"
            /\ UNCHANGED <<mode, history, frame, objects_info,
                           seg_analysis, message>>
    /\ UNCHANGED <<now, last_announcement, video_start_time, frames_done,
                   speechvars>>
    /\ UNCHANGED fusevars

\* line 39
AnalyzeScene ==
    /\ mainpc = "analyze_scene"
    /\ seg_analysis' = analyze_scene(frame)
    /\ mainpc' = "fuse"
    /\ UNCHANGED <<now, last_announcement, video_start_time, mode,
                   frames_done, frame, objects_info, text_info, message, speechvars, history>>
    /\ UNCHANGED fusevars

\* lines 42-48: _draw_text_annotation uses np, which the module does not
\* import, so a text record makes the visualisation raise NameError
Fuse ==
    /\ mainpc = "fuse"
    /\ IF Len(text_info) > 0
       THEN RaiseFromFrame
       ELSE /\ message' = _generate_announcement(objects_info \o text_info)
            /\ mainpc' = "dispatch"
            /\ UNCHANGED <<mode, frame, objects_info, text_info,
                           seg_analysis>>
    /\ UNCHANGED <<now, last_announcement, video_start_time, frames_done,
                   speechvars, history>>
    /\ UNCHANGED fusevars

ShouldSpeakAnything(msg) == msg # <<>>

\* if message and message != "Path clear"
ShouldSpeak(msg) == msg # <<>> /\ msg # PathClear

\* lines 49-50: the thread is created and started; the thread of frame k is
\* thread k. It runs from now on, while the caller goes on to line 51
Dispatch ==
    /\ mainpc = "dispatch"
    /\ IF ShouldSpeak(message)
       THEN /\ tpc' = [tpc EXCEPT ![frames_done] = "check"]
            /\ ttext' = [ttext EXCEPT ![frames_done] = message]
            /\ mainpc' = "announced"
       ELSE /\ mainpc' = "return"
            /\ UNCHANGED <<tpc, ttext>>
    /\ UNCHANGED <<now, last_announcement, video_start_time, mode,
                   frames_done, framevars, speaking, audio_lock, audio_files,
                   audio_timestamps, tlocal, music_busy, history>>
    /\ UNCHANGED fusevars

\* line 51: self.last_announcement = time.time()
MarkAnnouncement ==
    /\ mainpc = "announced"
    /\ last_announcement' = now
    /\ mainpc' = "return"
    /\ UNCHANGED <<now, video_start_time, mode, frames_done, framevars,
                   speechvars, history>>
    /\ UNCHANGED fusevars

ReturnAfterJoin == tpc[frames_done] \in {"unstarted", "done"}

\* what line 53 waits for: nothing (the thread is started and never joined)
CanReturn == TRUE

\* line 53, and the caller's loop
ReturnFromFrame ==
    /\ mainpc = "return"
    /\ CanReturn
    /\ mainpc' = IF mode = "video" THEN "loop" ELSE "ready"
    /\ mode' = IF mode = "video" THEN "video" ELSE "none"
    /\ frame' = NoFrame
    /\ objects_info' = <<>>
    /\ text_info' = <<>>
    /\ seg_analysis' = NoAnalysis
    /\ message' = NoMessage
    /\ UNCHANGED <<now, last_announcement, video_start_time, frames_done,
                   speechvars, history>>
    /\ UNCHANGED fusevars

\* line 222: if self.audio_manager.audio_timestamps
MergeCheck ==
    /\ mainpc = "merge_check"
    /\ mainpc' = IF Len(audio_timestamps) > 0 THEN "merging" ELSE "ready"
    /\ mode' = IF Len(audio_timestamps) > 0 THEN mode ELSE "none"
    /\ UNCHANGED <<now, last_announcement, video_start_time, frames_done,
                   framevars, speechvars, history>>
    /\ UNCHANGED fusevars

\* merge_audio_into_video: the clips of the log as it is now are merged
MergeAudio ==
    /\ mainpc = "merging"
    /\ mainpc' = "ready"
    /\ mode' = "none"
    /\ UNCHANGED <<now, last_announcement, video_start_time, frames_done,
                   framevars, speechvars, history>>
    /\ UNCHANGED fusevars

\* the sound that pygame.mixer.music.play() started comes to its end
MusicEnds ==
    /\ music_busy
    /\ music_busy' = FALSE
    /\ UNCHANGED <<now, last_announcement, video_start_time, mainpc, mode,
                   frames_done, framevars, speaking, audio_lock,
                   audio_files, audio_timestamps, tpc, ttext, tlocal,
                   history>>
    /\ UNCHANGED fusevars

\* time passes, as far as the clock is followed
Tick ==
    /\ now < ClockCap
    /\ now' = now + 1
    /\ UNCHANGED <<last_announcement, video_start_time, mainpc, mode,
                   frames_done, framevars, speechvars, history>>
    /\ UNCHANGED fusevars

----------------------------------------------------------------------------
(* The system: one caller thread and the speak_text threads it starts *)

\* after AudioNavigationSystem.__init__ (and AudioManager.__init__)
SysInit ==
    /\ now = 0
    /\ last_announcement = 0
    /\ video_start_time = NoTime
    /\ mainpc = "ready"
    /\ mode = "none"
    /\ frames_done = 0
    /\ frame = NoFrame
    /\ objects_info = <<>>
    /\ text_info = <<>>
    /\ seg_analysis = NoAnalysis
    /\ message = NoMessage
    /\ speaking = FALSE
    /\ audio_lock = 0
    /\ audio_files = <<>>
    /\ audio_timestamps = <<>>
    /\ tpc = [t \in Threads |-> "unstarted"]
    /\ ttext = [t \in Threads |-> <<>>]
    /\ tlocal = [t \in Threads |-> NoLocal]
    /\ music_busy = FALSE
    /\ history = [failed |-> [t \in Threads |-> "no"],
                  ocr_calls |-> 0, last_ocr |-> NoTime,
                  reader |-> "unread", first_call |-> NoTime]

FuseIdle ==
    /\ fuse_pc = "off"
    /\ fuse_in = <<>>
    /\ fuse_out = <<>>

Init == SysInit /\ FuseIdle

Next ==
    \/ ProcessVideo
    \/ ProcessImage
    \/ VideoRead
    \/ DetectObjects
    \/ DetectTextWithCooldown
    \/ AnalyzeScene
    \/ Fuse
    \/ Dispatch
    \/ MarkAnnouncement
    \/ ReturnFromFrame
    \/ MergeCheck
    \/ MergeAudio
    \/ \E t \in Threads : SpeakCheck(t)
    \/ \E t \in Threads : SpeakAcquire(t)
    \/ \E t \in Threads : SpeakTry(t)
    \/ \E t \in Threads : SpeakStamp(t)
    \/ \E t \in Threads : SpeakName(t)
    \/ \E t \in Threads : SpeakSaved(t)
    \/ \E t \in Threads : SpeakPlay(t)
    \/ \E t \in Threads : SpeakPlayed(t)
    \/ \E t \in Threads : SpeakFinally(t)
    \/ \E t \in Threads : SpeakRelease(t)
    \/ MusicEnds
    \/ Tick

Spec == Init /\ [][Next]_vars

----------------------------------------------------------------------------
(* The detectors and the selector on their own: detector results in,       *)
(* records and announcement out                                            *)

MaxRecords == 5

TextResult(text, x1, y1, x2, y2) ==
    [bbox |-> <<<<x1, y1>>, <<x2, y1>>, <<x2, y2>>, <<x1, y2>>>>,
     text |-> text, confidence |-> 90]

\* Boxes and OCR results for the selection: two pairs of equal score (chair
\* and bench on the left; the far chair and the far text without keyword).
\* The texts: a keyword between an ogham space mark (U+1680) and an em space
\* (U+2003), and a text that begins with a capital sigma (U+03A3)
SelBoxes ==
    {Box(Str("chair"), 10, 50, 60, 150), Box(Str("bench"), 20, 50, 70, 150),
     Box(Str("car"), 100, 0, 200, 400), Box(Str("Chair"), 0, 0, 50, 40)}

SelTexts ==
    {TextResult(<<5760>> \o Str("EXIT") \o <<8195>>, 120, 10, 180, 60),
     TextResult(<<931>> \o Str("bc st"), 120, 10, 180, 30)}

SelWidths == {300}

SeqsUpTo(S, n) == UNION {[1..k -> S] : k \in 0..n}

\* Boxes and OCR results for the ranking: every label class, heights on both
\* sides of every clamp and threshold, the three positions
RankLabels == {"car", "person", "bicycle", "dog", "chair", "stop sign", "kite"}

RankHeights == {0, 10, 13, 40, 167, 251, 300, 400, 1000}

RankLefts == {0, 100, 200}

RankBoxes ==
    {Box(Str(l), x, 0, x + 100, h) : l \in RankLabels, x \in RankLefts,
                                     h \in RankHeights}

\* OCR texts: a keyword between a vertical tab (U+000B) and a no-break
\* space (U+00A0); a text without keyword that has a capital outside ASCII
\* (U+00C9); two texts that are one character once stripped, which line 52
\* drops (after a vertical tab, after the ogham space mark U+1680); a
\* keyword after a capital sigma (U+03A3), and one before a final capital
\* sigma; a keyword spelled with the capital dotted I (U+0130), whose
\* lowercase is two code points, so that the keyword is not in clean_text
RankStrings ==
    {<<11>> \o Str("EXIT") \o <<160>>,
     Str("CAF") \o <<201>> \o Str(" st"),
     <<11>> \o Str("a"),
     <<5760>> \o Str("a"),
     <<931>> \o Str("TOP"),
     Str("STOP ") \o <<927, 916, 927, 931>>,
     Str("EX") \o <<304>> \o Str("T")}

RankTexts ==
    {TextResult(t, x, 0, x + 100, h) : t \in RankStrings,
                                       x \in RankLefts, h \in RankHeights}

SelectInit ==
    /\ SysInit
    /\ fuse_pc = "input"
    /\ \E boxes \in SeqsUpTo(SelBoxes, MaxRecords) :
       \E results \in SeqsUpTo(SelTexts, MaxRecords - Len(boxes)) :
       \E w \in SelWidths :
           fuse_in = [boxes |-> boxes, results |-> results, width |-> w]
    /\ fuse_out = <<>>

RankInit ==
    /\ SysInit
    /\ fuse_pc = "input"
    /\ \E b \in RankBoxes : \E t \in RankTexts : \E w \in SelWidths :
           fuse_in = [boxes |-> <<b>>, results |-> <<t>>, width |-> w]
    /\ fuse_out = <<>>

\* The three components are called here one after the other, each a public
\* or internal method on its own arguments; this is not process_frame, which
\* hands no text record to the selector (DetectTextWithCooldown, Fuse).

\* ObjectDetector.detect_objects on the boxes the YOLO model returned
FuseDetectObjects ==
    /\ fuse_pc = "input"
    /\ fuse_out' = [objects_info |-> detect_objects(fuse_in.boxes,
                                                   fuse_in.width)]
    /\ fuse_pc' = "objects"
    /\ UNCHANGED fuse_in
    /\ UNCHANGED sysvars

\* TextDetector.detect_text, with a reader, on the results readtext returned
FuseDetectText ==
    /\ fuse_pc = "objects"
    /\ fuse_out' = [objects_info |-> fuse_out.objects_info,
                    text_info |-> detect_text("ok", fuse_in.results,
                                              fuse_in.width)]
    /\ fuse_pc' = "texts"
    /\ UNCHANGED fuse_in
    /\ UNCHANGED sysvars

\* _generate_announcement on the list all of the records of both detectors,
\* the objects first
FuseAnnounce ==
    /\ fuse_pc = "texts"
    /\ LET all == fuse_out.objects_info \o fuse_out.text_info
           out == GenerateAnnouncement(all)
       IN  fuse_out' = [all |-> all, sorted |-> out.sorted,
                        messages |-> out.messages, result |-> out.result]
    /\ fuse_pc' = "done"
    /\ UNCHANGED fuse_in
    /\ UNCHANGED sysvars

FuseNext ==
    \/ FuseDetectObjects
    \/ FuseDetectText
    \/ FuseAnnounce

SpecSelect == SelectInit /\ [][FuseNext]_vars

SpecRank == RankInit /\ [][FuseNext]_vars

----------------------------------------------------------------------------
(* Properties of the speech dispatch and of the frame loop *)

\* A thread that holds the slot: from speaking = True to the release
InFlight(t) ==
    tpc[t] \in {"stamp", "name", "saving", "play", "playing", "finally",
                "sleeping"}

\* A thread that went through the synthesis and the appends, lines 26-45, or
\* left them by an exception
PastTry(t) ==
    tpc[t] \in {"play", "playing", "finally", "sleeping", "done", "crashed"}

\* A dispatch other than t has been accepted and has not yet released the
\* slot after its debounce
OccupiedByOther(t) ==
    \E u \in Threads \ {t} :
        tpc[u] \in {"acquire", "try", "stamp", "name", "saving", "play",
                    "playing", "finally", "sleeping"}

\* C1: a speak request that arrives (runs the check of line 22) while another
\* dispatch occupies the slot, at any point from that dispatch being accepted
\* until its release after the debounce, is dropped: it returns at once,
\* and the log and the slot are as they were.
C1_BusyRequestDropped ==
    [][\A t \in Threads :
          (tpc[t] = "check" /\ tpc'[t] # "check" /\ OccupiedByOther(t))
              => /\ tpc'[t] = "dropped"
                 /\ UNCHANGED <<audio_timestamps, speaking, audio_lock>>]_vars

\* The caller's thread takes the step of line 38
TextStep == mainpc = "detect_text" /\ mainpc' # "detect_text"

\* The text detector is invoked in this step
OcrInvoked == history'.ocr_calls # history.ocr_calls

\* C2: the text detector is invoked on a frame only if more than 2.0 s have
\* passed since its invocation before (since construction, for the first),
\* so any two invocations are more than 2.0 s apart; and a frame on which
\* the gate does not pass goes on without an invocation and with an empty
\* text list.
C2_TextDetectionSpaced ==
    [][/\ OcrInvoked
              => /\ TextStep
                 /\ now - (IF history.last_ocr = NoTime THEN 0
                           ELSE history.last_ocr) > TEXT_COOLDOWN
       /\ (TextStep /\ ~GatePasses(now))
              => /\ ~OcrInvoked
                 /\ mainpc' = "analyze_scene"
                 /\ text_info' = <<>>]_vars

\* C2's case: the second frame of a video, taken less than 2.0 s after the
\* first frame's announcement, has passed the closed gate with an empty text
\* list; the text detector has not been invoked.
C2_Witness ==
    /\ frames_done = 2
    /\ mainpc = "analyze_scene"
    /\ last_announcement > 0
    /\ ~GatePasses(now)
    /\ text_info = <<>>
    /\ history.ocr_calls = 0

\* C3: process_frame never fails: no call of it ends with an exception at the
\* caller.
C3_ProcessFrameNeverFails == mainpc # "raised"

\* C4: at most one speech dispatch is in flight: no two speak_text threads are
\* at the same time between marking the slot occupied and releasing it.
C4_AtMostOneInFlight ==
    \A t1, t2 \in Threads : (InFlight(t1) /\ InFlight(t2)) => t1 = t2

\* C4's case: one dispatch is playing while another request, already past the
\* check, waits for the lock.
C4_Witness ==
    \E t1, t2 \in Threads : tpc[t1] = "playing" /\ tpc[t2] = "acquire"

\* C5: "Path clear" is never sent to the speech dispatch: a frame without
\* records has the message "Path clear", no thread is started for a frame
\* with that message, and no thread ever has it as its text.
C5_PathClearNeverSpoken ==
    /\ \A t \in Threads : ttext[t] # PathClear
    /\ (mainpc \in {"dispatch", "announced", "return"}
           /\ Len(objects_info \o text_info) = 0) => message = PathClear
    /\ (mainpc = "return" /\ message = PathClear)
           => (tpc[frames_done] = "unstarted" /\ ttext[frames_done] = <<>>)

\* C5's case: a frame without records has been fused and dispatched.
C5_Witness ==
    /\ mainpc = "return"
    /\ Len(objects_info \o text_info) = 0
    /\ message = PathClear

\* C6: the frame never waits for the speech dispatch: whatever the threads
\* are doing, the dispatch step of process_frame and its return can be taken.
C6_FrameNeverWaits ==
    /\ mainpc = "dispatch" => ENABLED Dispatch
    /\ mainpc = "announced" => ENABLED MarkAnnouncement
    /\ mainpc = "return" => ENABLED ReturnFromFrame

\* C6's case: the second frame has been detected, fused and dispatched while
\* the utterance of the first is still playing or in its debounce.
C6_Witness ==
    /\ frames_done = 2
    /\ mainpc = "return"
    /\ mode = "video"
    /\ tpc[1] \in {"playing", "sleeping"}

----------------------------------------------------------------------------
(* Properties of the fusion *)

Score(item) == _get_comprehensive_priority(item)

\* What the announcement loop says for one record
Formatted(item) ==
    IF item.type = "object" THEN _format_object_announcement(item)
    ELSE _format_text_announcement(item)

\* The place of record i of the list in the stable descending order: one more
\* than the number of records that come before it
Rank(all, i) ==
    1 + Cardinality({j \in 1..Len(all) :
                        \/ DLess(Score(all[i]), Score(all[j]))
                        \/ Score(all[j]) = Score(all[i]) /\ j < i})

\* C7: for a list of n records the selector emits exactly min(n, 4)
\* messages: the formatted first min(n, 4) records of the list in descending
\* score order, records of equal score in their detection order.
C7_SelectorTopFourStable ==
    fuse_pc = "done" =>
        LET all == fuse_out.all
            n == Len(all)
        IN  /\ Len(fuse_out.messages) = Min(n, MAX_ANNOUNCEMENTS)
            /\ Len(fuse_out.messages) <= MAX_ANNOUNCEMENTS
            /\ \A i \in 1..n :
                   Rank(all, i) <= MAX_ANNOUNCEMENTS
                       => fuse_out.messages[Rank(all, i)] = Formatted(all[i])
            /\ \A i \in 1..n : fuse_out.sorted[Rank(all, i)] = all[i]

\* C7's case: more records than four, two of equal score among the four
\* announced, and an order of detection that is not the order of the scores.
C7_Witness ==
    /\ fuse_pc = "done"
    /\ Len(fuse_out.all) > MAX_ANNOUNCEMENTS
    /\ Len(fuse_out.messages) = MAX_ANNOUNCEMENTS
    /\ fuse_out.sorted # fuse_out.all
    /\ \E i, j \in 1..Len(fuse_out.all) :
           /\ i < j
           /\ fuse_out.all[i] # fuse_out.all[j]
           /\ Score(fuse_out.all[i]) = Score(fuse_out.all[j])
           /\ Rank(fuse_out.all, j) <= MAX_ANNOUNCEMENTS

\* A vehicle, person or bicycle in the centre, nearer than 3 m
Critical(item) ==
    /\ item.type = "object"
    /\ item.label \in {"vehicle", "person", "bicycle"}
    /\ item.position = "center"
    /\ DLess(item.distance, DInt(3))

\* C8: a vehicle, person or bicycle in the centre and nearer than 3 m scores
\* strictly more than any text record, and comes before it in the sorted
\* list.
C8_CriticalObjectOutranksText ==
    fuse_pc = "done" =>
        /\ \A i, j \in 1..Len(fuse_out.all) :
               (Critical(fuse_out.all[i]) /\ fuse_out.all[j].type = "text")
                   => DLess(Score(fuse_out.all[j]), Score(fuse_out.all[i]))
        /\ \A i, j \in 1..Len(fuse_out.sorted) :
               (Critical(fuse_out.sorted[j])
                    /\ fuse_out.sorted[i].type = "text") => j < i

\* C8's case: the lowest critical object (a bicycle just inside 3 m) against
\* the highest text (important, in the centre, at 0.5 m).
C8_Witness ==
    /\ fuse_pc = "done"
    /\ \E i, j \in 1..Len(fuse_out.all) :
           /\ Critical(fuse_out.all[i])
           /\ fuse_out.all[i].label = "bicycle"
           /\ DLess(DRat(29, 10), fuse_out.all[i].distance)
           /\ fuse_out.all[j].type = "text"
           /\ fuse_out.all[j].is_important
           /\ fuse_out.all[j].position = "center"
           /\ fuse_out.all[j].distance = DRat(1, 2)

----------------------------------------------------------------------------
(* Properties of the announcement log *)

IsPrefix(s, t) == Len(s) <= Len(t) /\ SubSeq(t, 1, Len(s)) = s

\* Thread t begins its synthesis in this step: it enters tts.save
LeavesName(t) == tpc[t] = "name" /\ tpc'[t] # "name"

\* The synthesis of thread t ends in this step: tts.save returns or raises
LeavesSaving(t) == tpc[t] = "saving" /\ tpc'[t] # "saving"

\* Thread t begins its playback in this step, or play_audio raises
LeavesPlay(t) == tpc[t] = "play" /\ tpc'[t] # "play"

\* The dispatch of thread t fails in this step
Fails(t) == history.failed[t] = "no" /\ history'.failed[t] # "no"

\* The log has an entry that thread t made
HasEntryOf(t) ==
    \E i \in 1..Len(audio_timestamps) :
        /\ audio_timestamps[i].filename = tlocal[t].audio_filename
        /\ audio_timestamps[i].text = ttext[t]

\* The steps of a failed dispatch after the failure: caught, the flag
\* cleared, the lock released after the debounce, the log left alone
FailureHandled(t) ==
    /\ Fails(t) => tpc'[t] = "finally" /\ audio_timestamps' = audio_timestamps
    /\ (history.failed[t] # "no" /\ tpc[t] = "finally"
            /\ tpc'[t] # "finally")
           => /\ tpc'[t] = "sleeping"
              /\ speaking' = FALSE
              /\ audio_timestamps' = audio_timestamps
    /\ (history.failed[t] # "no" /\ tpc[t] = "sleeping"
            /\ tpc'[t] # "sleeping")
           => /\ tpc'[t] = "done"
              /\ audio_lock' = 0
              /\ speaking' = FALSE
              /\ audio_timestamps' = audio_timestamps

\* C9 as stated: a failure of the synthesis or of the playback is caught, the
\* slot is released, and the failed dispatch leaves no entry in the log.
C9_FailedDispatchLeavesNoEntry ==
    [][\A t \in Threads :
          /\ Fails(t) => ~HasEntryOf(t)'
          /\ FailureHandled(t)]_vars

\* C9, amended: a failure of the synthesis or of the playback is caught and
\* the slot is released; a failed synthesis leaves no entry in the log, a
\* failed playback leaves the entry that was appended before the playback.
C9_FailureCaughtSlotReleased ==
    [][\A t \in Threads :
          /\ (Fails(t) /\ history'.failed[t] = "synth")
                 => /\ LeavesSaving(t)
                    /\ ~HasEntryOf(t)'
          /\ (Fails(t) /\ history'.failed[t] = "play")
                 => /\ LeavesPlay(t)
                    /\ HasEntryOf(t)'
                    /\ audio_timestamps[Len(audio_timestamps)].text
                           = ttext[t]
          /\ FailureHandled(t)]_vars

\* C9's case: one dispatch whose synthesis failed and one whose playback
\* failed have both ended; the log holds the entry of the second.
C9_Witness ==
    /\ \E t, u \in Threads :
           /\ history.failed[t] = "synth" /\ tpc[t] = "done"
           /\ history.failed[u] = "play" /\ tpc[u] = "done"
    /\ Len(audio_timestamps) = 1
    /\ audio_lock = 0
    /\ ~speaking

\* An entry as line 40-45 builds it
EntryWellFormed(e) ==
    /\ DOMAIN e = {"filename", "timestamp", "timestamp_str", "text"}
    /\ e.timestamp_str = _format_timestamp(e.timestamp)
    /\ \E t \in Threads : PastTry(t) /\ e.text = ttext[t]

\* The log only grows at its end, by one well-formed entry at a time, and a
\* request that is dropped adds nothing
AppendOnly ==
    /\ IsPrefix(audio_timestamps, audio_timestamps')
    /\ Len(audio_timestamps') <= Len(audio_timestamps) + 1
    /\ Len(audio_timestamps') > Len(audio_timestamps)
           => EntryWellFormed(audio_timestamps[Len(audio_timestamps)])'
    /\ \A t \in Threads :
           (tpc[t] = "check" /\ tpc'[t] = "dropped")
               => audio_timestamps' = audio_timestamps

\* C10 as stated: the log is append-only, and its length is the number of
\* accepted requests (those that passed the check and went through lines
\* 26-45).
C10_LogCountsAccepted ==
    [][/\ AppendOnly
       /\ Len(audio_timestamps')
              = Cardinality({t \in Threads : PastTry(t)'})]_vars

\* C10, amended: the log is append-only, and its length is the number of
\* accepted requests whose synthesis succeeded; an accepted request whose
\* synthesis failed adds no entry.
C10_LogCountsSynthesized ==
    [][/\ AppendOnly
       /\ Len(audio_timestamps')
              = Cardinality({t \in Threads :
                                PastTry(t)' /\ history'.failed[t] # "synth"})
      ]_vars

\* C10's case: two accepted requests have each added their entry, in the
\* order of their dispatch.
C10_Witness ==
    /\ Len(audio_timestamps) = 2
    /\ \A t \in Threads : tpc[t] = "done" /\ history.failed[t] = "no"
    /\ RLess(audio_timestamps[1].timestamp, audio_timestamps[2].timestamp)

----------------------------------------------------------------------------
(* Properties of the debounce *)

\* Thread t releases the slot in this step
LeavesSleep(t) == tpc[t] = "sleeping" /\ tpc'[t] # "sleeping"

\* C11: after an utterance has ended no other utterance begins its synthesis
\* or playback before the 0.5 s debounce is over: a dispatch begins its
\* synthesis (line 60) and its playback (line 48) only when no earlier
\* utterance is still audible and no other dispatch is in its playback or
\* its debounce, and the slot is released only when the debounce that began
\* after the playback has run out.
C11_DebounceAfterPlayback ==
    [][\A t \in Threads :
          /\ (LeavesName(t) \/ LeavesPlay(t))
                 => /\ ~music_busy
                    /\ \A u \in Threads \ {t} : ~InFlight(u)
          /\ LeavesSleep(t) => now >= tlocal[t].wake]_vars

----------------------------------------------------------------------------
(* Progress of the speech dispatch *)

\* The clock goes on while a thread sleeps, past the time the frames are
\* followed to
TickSleeping ==
    /\ now >= ClockCap
    /\ \E t \in Threads : tpc[t] = "sleeping" /\ tlocal[t].wake > now
    /\ now' = now + 1
    /\ UNCHANGED <<last_announcement, video_start_time, mainpc, mode,
                   frames_done, framevars, speechvars, history>>
    /\ UNCHANGED fusevars

LiveNext ==
    \/ Next
    \/ TickSleeping

\* A step of thread t while it holds the lock
HolderStep(t) ==
    \/ SpeakTry(t)
    \/ SpeakStamp(t)
    \/ SpeakName(t)
    \/ SpeakSaved(t)
    \/ SpeakPlay(t)
    \/ SpeakPlayed(t)
    \/ SpeakFinally(t)
    \/ SpeakRelease(t)

\* A thread that holds the lock goes on (the scheduler is fair and the
\* external synthesis and playback calls return), and the clock advances
Fairness ==
    /\ \A t \in Threads : WF_vars(HolderStep(t))
    /\ WF_vars(Tick \/ TickSleeping)

SpecLive == Init /\ [][LiveNext]_vars /\ Fairness

\* Thread t holds the lock
Occupies(t) ==
    tpc[t] \in {"try", "stamp", "name", "saving", "play", "playing",
                "finally", "sleeping"}

\* No dispatch is between its acceptance and its release
NoDispatchRunning ==
    \A t \in Threads : tpc[t] \notin {"acquire", "try", "stamp", "name",
                                      "saving", "play", "playing", "finally",
                                      "sleeping"}

\* C12: the slot is never occupied forever: a dispatch that holds the slot
\* releases it in the end, whether the playback ends or the synthesis or the
\* playback raises; when no dispatch is running the slot is free (speaking is
\* false, the lock is not held), and a non-empty message that arrives then
\* is accepted.
C12_SlotReleased ==
    /\ \A t \in Threads : Occupies(t) ~> (tpc[t] = "done" /\ audio_lock # t)
    /\ [](NoDispatchRunning => (~speaking /\ audio_lock = 0))
    /\ [][\A t \in Threads :
             (tpc[t] = "check" /\ tpc'[t] # "check" /\ ttext[t] # <<>>
                  /\ NoDispatchRunning) => tpc'[t] = "acquire"]_vars

\* C12's case: a dispatch whose playback raised has released the slot, and
\* the dispatch of the next frame holds it.
C12_Witness ==
    /\ tpc[1] = "done"
    /\ history.failed[1] # "no"
    /\ Occupies(2)
    /\ audio_lock = 2

----------------------------------------------------------------------------
(* Properties of the formatting and of the estimators *)

\* The frame of SysFrames with one vehicle: 300 px wide, 400 px high, the
\* vehicle 400 px high with its centre at x = 150, no text
VehicleFrame ==
    [height |-> 400, width |-> 300,
     boxes |-> <<Box(Str("car"), 100, 0, 200, 400)>>, results |-> <<>>]

\* C13: a vehicle, person or bicycle in the centre and nearer than 3 m is
\* announced as "WARNING: <label> directly ahead, <distance category>"; the
\* frame with the single vehicle (distance 1.875, very close, centre) has
\* the message "WARNING: vehicle directly ahead, very close".
C13_WarningSentence ==
    mainpc \in {"dispatch", "announced", "return"} =>
        /\ \A i \in 1..Len(objects_info) :
               Critical(objects_info[i]) =>
                   _format_object_announcement(objects_info[i])
                       = Str("WARNING: " \o objects_info[i].label
                                 \o " directly ahead, "
                                 \o objects_info[i].distance_category)
        /\ frame = VehicleFrame =>
               /\ objects_info[1].distance = DRat(15, 8)
               /\ objects_info[1].distance_category = "very close"
               /\ objects_info[1].position = "center"
               /\ message
                      = Str("WARNING: vehicle directly ahead, very close")

----------------------------------------------------------------------------
(* The distance estimators on their own *)

MaxHeight == 20

\* Heights of bounding boxes, degenerate ones included
EstHeights == (0 - MaxHeight)..MaxHeight

\* An object type of the table, or one that is not in it
EstTypes == ReferenceLabels \cup {"kite"}

EstInit ==
    /\ SysInit
    /\ fuse_pc = "height"
    /\ \E h \in EstHeights : \E l \in EstTypes :
           fuse_in = [bbox_height |-> h, object_type |-> l]
    /\ fuse_out = <<>>

\* both estimators on the same height
EstRun ==
    /\ fuse_pc = "height"
    /\ fuse_out' =
           [object |-> _calculate_object_distance(fuse_in.bbox_height,
                                                  fuse_in.object_type),
            text |-> _calculate_text_distance(fuse_in.bbox_height)]
    /\ fuse_pc' = "estimated"
    /\ UNCHANGED fuse_in
    /\ UNCHANGED sysvars

EstNext == EstRun

SpecEstimate == EstInit /\ [][EstNext]_vars

\* C14: for a height that is not positive the estimators return the upper
\* bound of their range: 20 for an object, 15 for a text.
C14_DegenerateHeightUpperBound ==
    (fuse_pc = "estimated" /\ fuse_in.bbox_height <= 0) =>
        /\ fuse_out.object = DInt(20)
        /\ fuse_out.text = DInt(15)

----------------------------------------------------------------------------
(* Properties of the frame cycle *)

\* The caller's thread takes a step of process_frame
FrameMoves ==
    /\ mainpc \in {"detect_objects", "detect_text", "analyze_scene", "fuse",
                   "dispatch", "announced", "return"}
    /\ mainpc' # mainpc

\* The steps that may come after each step of the cycle: the dispatch step
\* is lines 49-50 and, for a message that is spoken, line 51; the return
\* goes back to the frame loop or, for an image, to the caller
StepAfter ==
    [p \in {"detect_text", "analyze_scene", "fuse", "dispatch", "announced",
            "return"} |->
        CASE p = "detect_text" -> {"analyze_scene"}
          [] p = "analyze_scene" -> {"fuse"}
          [] p = "fuse" -> {"dispatch"}
          [] p = "dispatch" -> {"announced", "return"}
          [] p = "announced" -> {"return"}
          [] p = "return" -> {"loop", "ready"}]

\* C15: in every frame cycle the steps come in the order object detection,
\* gated text detection, scene analysis, fusion, dispatch, return; a frame
\* whose objects have been detected goes on to the scene analysis whether
\* the gate passes or not; the dispatch thread of a frame is started by that
\* frame's dispatch step, with the message the fusion produced, and at the
\* next frame's object detection no thread of that frame has been started.
C15_FrameCycleOrder ==
    [][/\ (FrameMoves /\ mainpc = "detect_objects")
              => mainpc' \in {"detect_text", "raised"}
       /\ (FrameMoves /\ mainpc # "detect_objects")
              => mainpc' \in StepAfter[mainpc]
       /\ (FrameMoves /\ mainpc = "return")
              => mainpc' = IF mode = "video" THEN "loop" ELSE "ready"
       /\ \A t \in Threads :
              (tpc[t] = "unstarted" /\ tpc'[t] # "unstarted")
                  => /\ mainpc = "dispatch"
                     /\ t = frames_done
                     /\ ttext'[t] = message
                     /\ message = _generate_announcement(objects_info
                                                            \o text_info)
       /\ mainpc' = "detect_objects"
              => tpc'[frames_done'] = "unstarted"]_vars

----------------------------------------------------------------------------
(* Properties of the text gate *)

\* The caller's thread takes the step of line 51, which only a frame with a
\* message that is to be spoken reaches
SpokenFrame == mainpc = "announced" /\ mainpc' # "announced"

\* C16: the gate is keyed on the announcement time: that time is the
\* construction time until a frame has a message to speak, it is set to the
\* clock by every frame with such a message, whatever becomes of the speech
\* request, and by no other step; on a frame more than 2.0 s after it the
\* text detector is invoked and the frame goes on with its records, on any
\* other frame the detector is not invoked and the text list is empty.
C16_GateKeyedOnAnnouncement ==
    [][/\ (mainpc = "dispatch" /\ mainpc' # "dispatch")
              => (mainpc' = "announced" <=> ShouldSpeak(message))
       /\ SpokenFrame => last_announcement' = now
       /\ ~SpokenFrame => last_announcement' = last_announcement
       /\ TextStep =>
              IF now - last_announcement > TEXT_COOLDOWN
              THEN mainpc' = "analyze_scene"
              ELSE mainpc' = "analyze_scene" /\ text_info' = <<>>]_vars

----------------------------------------------------------------------------
(* Properties of the merge *)

\* Thread t was never started or has returned from speak_text
ThreadOver(t) == tpc[t] \in {"unstarted", "dropped", "done", "crashed"}

\* C17: when process_video has left the frame loop and reads the log for the
\* merge, no speak_text thread is still running, and the log is not appended
\* to while the merge is decided on and performed.
C17_NoDispatchAtMerge ==
    [][/\ mainpc' \in {"merge_check", "merging"}
              => \A t \in Threads : ThreadOver(t)'
       /\ mainpc \in {"merge_check", "merging"}
              => audio_timestamps' = audio_timestamps]_vars

====
